---- MODULE Spec2Model ----
(***************************************************************************)
(* Band extraction of cliffr39/band_check.  A text is a sequence of        *)
(* one-character strings over the characters U+0000..U+00FF; a character   *)
(* beyond U+00FF that the definitions name (the other whitespace, an upper *)
(* case outside the range) and that a string of this module cannot hold    *)
(* is the string "U+" and its four hex digits.                             *)
(* The three parse_phone_bands variants are                                *)
(* operators computed the way Python's re module computes the source's     *)
(* regular expressions (leftmost, greedy, non-overlapping matches).        *)
(***************************************************************************)
EXTENDS Integers, Sequences, FiniteSets, TLC

(***************************************************************************)
(* Characters                                                              *)
(***************************************************************************)
UpperLetters == <<"A","B","C","D","E","F","G","H","I","J","K","L","M",
                  "N","O","P","Q","R","S","T","U","V","W","X","Y","Z">>

LowerLetters == <<"a","b","c","d","e","f","g","h","i","j","k","l","m",
                  "n","o","p","q","r","s","t","u","v","w","x","y","z">>

DigitChars == <<"0","1","2","3","4","5","6","7","8","9">>

UpperSet == {UpperLetters[i] : i \in DOMAIN UpperLetters}

LowerSet == {LowerLetters[i] : i \in DOMAIN LowerLetters}

DigitSet == {DigitChars[i] : i \in DOMAIN DigitChars}

\* str.lower() of one character (what re.IGNORECASE compares)
LowerOf ==
    [c \in UpperSet |->
        LowerLetters[CHOOSE i \in DOMAIN UpperLetters : UpperLetters[i] = c]]

lower(c) == IF c \in UpperSet THEN LowerOf[c] ELSE c

\* \d
IsDigit(c) == c \in DigitSet

\* the whitespace of Python (str.isspace): U+0009..U+000D, U+001C..U+001F,
\* U+0020, U+0085, U+00A0 and the whitespace beyond U+00FF (U+1680, then
\* the others by their code points)
WhitespaceChars ==
    {"\t", "\n", "", "\f", "\r", "", "", "", "", " ", "", " ",
     " ", "U+2000", "U+2001", "U+2002", "U+2003", "U+2004",
     "U+2005", "U+2006", "U+2007", "U+2008", "U+2009", "U+200A",
     "U+2028", "U+2029", "U+202F", "U+205F", "U+3000"}

\* \s, and the characters str.strip() removes
IsSpace(c) == c \in WhitespaceChars

\* the characters of U+0080..U+00FF that \w takes (str.isalnum)
Latin1WordChars ==
    {"ª", "²", "³", "µ", "¹", "º", "¼", "½", "¾", "À", "Á", "Â", "Ã",
     "Ä", "Å", "Æ", "Ç", "È", "É", "Ê", "Ë", "Ì", "Í", "Î", "Ï", "Ð",
     "Ñ", "Ò", "Ó", "Ô", "Õ", "Ö", "Ø", "Ù", "Ú", "Û", "Ü", "Ý", "Þ",
     "ß", "à", "á", "â", "ã", "ä", "å", "æ", "ç", "è", "é", "ê", "ë",
     "ì", "í", "î", "ï", "ð", "ñ", "ò", "ó", "ô", "õ", "ö", "ø", "ù",
     "ú", "û", "ü", "ý", "þ", "ÿ"}

\* \w, on the characters up to U+00FF
IsWordChar(c) ==
    c \in DigitSet \/ c \in UpperSet \/ c \in LowerSet \/ c = "_"
        \/ c \in Latin1WordChars

\* \b at the gap before s[i] (i = Len(s)+1 is the end of the string)
WordBoundary(s, i) ==
    LET before == i > 1 /\ i - 1 <= Len(s) /\ IsWordChar(s[i - 1])
        after  == i >= 1 /\ i <= Len(s) /\ IsWordChar(s[i])
    IN  before # after

\* the first position >= i that holds no digit: the end of a greedy \d+ at i
RECURSIVE DigitsEnd(_, _)
DigitsEnd(s, i) ==
    IF i <= Len(s) /\ IsDigit(s[i]) THEN DigitsEnd(s, i + 1) ELSE i

\* the first position >= i that holds no whitespace: the end of a greedy \s*
RECURSIVE SpaceEnd(_, _)
SpaceEnd(s, i) ==
    IF i <= Len(s) /\ IsSpace(s[i]) THEN SpaceEnd(s, i + 1) ELSE i

\* the first position >= i that holds ")", or 0: where [^)]*\) ends
RECURSIVE CloseParen(_, _)
CloseParen(s, i) ==
    IF i > Len(s) THEN 0
    ELSE IF s[i] = ")" THEN i
    ELSE CloseParen(s, i + 1)

\* int(band_str) of a run of ASCII digits (runs of at most 9 digits: TLC's
\* integers are 32 bits wide, Python's are unbounded)
RECURSIVE int(_)
DigitValue ==
    [c \in DigitSet |-> (CHOOSE i \in DOMAIN DigitChars : DigitChars[i] = c) - 1]

int(ds) ==
    IF ds = <<>> THEN 0
    ELSE 10 * int(SubSeq(ds, 1, Len(ds) - 1)) + DigitValue[ds[Len(ds)]]

\* re.findall(r'\d+', s): the maximal digit runs of s, left to right
RECURSIVE DigitRuns(_, _)
DigitRuns(s, i) ==
    IF i > Len(s) THEN <<>>
    ELSE IF IsDigit(s[i])
         THEN LET e == DigitsEnd(s, i)
              IN  <<SubSeq(s, i, e - 1)>> \o DigitRuns(s, e)
         ELSE DigitRuns(s, i + 1)

\* the values int() gives for a sequence of digit runs
RECURSIVE Ints(_)
Ints(runs) ==
    IF runs = <<>> THEN <<>> ELSE <<int(Head(runs))>> \o Ints(Tail(runs))

SeqToSet(q) == {q[i] : i \in DOMAIN q}

\* sorted(list(S)) of a set of integers
sorted_descending(S) ==
    LET n == Cardinality(S)
    IN  [k \in 1..n |-> CHOOSE x \in S : Cardinality({y \in S : y > x}) = k - 1]

sorted(S) ==
    LET n == Cardinality(S)
    IN  [k \in 1..n |-> CHOOSE x \in S : Cardinality({y \in S : y < x}) = k - 1]

\* text.split('\n')
RECURSIVE split(_)
split(text) ==
    IF \E i \in DOMAIN text : text[i] = "\n"
    THEN LET i == CHOOSE j \in DOMAIN text :
                      text[j] = "\n" /\ \A k \in 1..(j - 1) : text[k] # "\n"
         IN  <<SubSeq(text, 1, i - 1)>> \o split(SubSeq(text, i + 1, Len(text)))
    ELSE <<text>>

\* line.strip()
RECURSIVE strip(_)
strip(line) ==
    IF line = <<>> THEN line
    ELSE IF IsSpace(line[1]) THEN strip(Tail(line))
    ELSE IF IsSpace(line[Len(line)]) THEN strip(SubSeq(line, 1, Len(line) - 1))
    ELSE line

\* s[i:i+len(word)] == word, case-insensitively
MatchAt(s, i, word) ==
    /\ i >= 1
    /\ i + Len(word) - 1 <= Len(s)
    /\ \A k \in DOMAIN word : lower(s[i + k - 1]) = lower(word[k])

(***************************************************************************)
(* parse_phone_bands of src/band_check_perplexity.py                       *)
(***************************************************************************)
\* the class [/\s,] that chains digit groups after 'n'
NrSeparator(c) == c = "/" \/ c = "," \/ IsSpace(c)

\* end of (?:[/\s,]\d+)* started at j, the position after a digit run
RECURSIVE NrChainEnd(_, _)
NrChainEnd(s, j) ==
    IF j + 1 <= Len(s) /\ NrSeparator(s[j]) /\ IsDigit(s[j + 1])
    THEN NrChainEnd(s, DigitsEnd(s, j + 1))
    ELSE j

\* re.findall(r'n(\d+(?:[/\s,]\d+)*)', text, re.IGNORECASE) from position i:
\* the captured groups, left to right
RECURSIVE nr_matches(_, _)
nr_matches(text, i) ==
    IF i > Len(text) THEN <<>>
    ELSE IF lower(text[i]) = "n" /\ i + 1 <= Len(text) /\ IsDigit(text[i + 1])
         THEN LET e == NrChainEnd(text, DigitsEnd(text, i + 1))
              IN  <<SubSeq(text, i + 1, e - 1)>> \o nr_matches(text, e)
         ELSE nr_matches(text, i + 1)

\* the band numbers of the loop over nr_matches, in the order they are added
RECURSIVE individual_bands(_)
individual_bands(groups) ==
    IF groups = <<>> THEN <<>>
    ELSE Ints(DigitRuns(Head(groups), 1)) \o individual_bands(Tail(groups))

\* the keywords of r'\b(4G|LTE|TD-LTE|FDD)\b'
LteKeywords == << <<"4","G">>, <<"L","T","E">>,
                  <<"T","D","-","L","T","E">>, <<"F","D","D">> >>

\* re.search(r'\b(4G|LTE|TD-LTE|FDD)\b', line, re.IGNORECASE)
HasLteKeyword(line) ==
    \E i \in DOMAIN line : \E k \in DOMAIN LteKeywords :
        /\ WordBoundary(line, i)
        /\ MatchAt(line, i, LteKeywords[k])
        /\ WordBoundary(line, i + Len(LteKeywords[k]))

\* re.search(r'\bB\d+', line, re.IGNORECASE)
HasBDigits(line) ==
    \E i \in DOMAIN line :
        /\ WordBoundary(line, i)
        /\ lower(line[i]) = "b"
        /\ i + 1 <= Len(line)
        /\ IsDigit(line[i + 1])

\* the condition under which a line is scanned for LTE bands
LteEligible_always(line) == TRUE

LteEligible(line) == HasLteKeyword(line) \/ HasBDigits(line)

\* re.sub(r'\s*\([^)]*\)', '', line) from position i
RECURSIVE clean_line(_, _)
clean_line(line, i) ==
    IF i > Len(line) THEN <<>>
    ELSE LET p == SpaceEnd(line, i)
             c == IF p <= Len(line) /\ line[p] = "(" THEN CloseParen(line, p + 1) ELSE 0
         IN  IF c > 0 THEN clean_line(line, c + 1)
             ELSE <<line[i]>> \o clean_line(line, i + 1)

\* where (?:[abAB])?\b ends when the digit run ends before position e; 0: no match
LteTokenEnd_noBoundary(s, e) ==
    IF e <= Len(s) /\ lower(s[e]) \in {"a", "b"} THEN e + 1 ELSE e

LteTokenEnd_noSuffix(s, e) ==
    IF WordBoundary(s, e) THEN e ELSE 0

LteTokenEnd(s, e) ==
    IF e <= Len(s) /\ lower(s[e]) \in {"a", "b"} /\ WordBoundary(s, e + 1) THEN e + 1
    ELSE IF WordBoundary(s, e) THEN e
    ELSE 0

\* re.findall(r'\bB?(\d+)(?:[abAB])?\b', s, re.IGNORECASE) from position i
RECURSIVE potential_lte_parts(_, _)
potential_lte_parts(s, i) ==
    IF i > Len(s) THEN <<>>
    ELSE LET d   == IF lower(s[i]) = "b" THEN i + 1 ELSE i
             e   == DigitsEnd(s, d)
             end == IF e > d THEN LteTokenEnd(s, e) ELSE 0
         IN  IF WordBoundary(s, i) /\ end > 0
             THEN <<SubSeq(s, d, e - 1)>> \o potential_lte_parts(s, end)
             ELSE potential_lte_parts(s, i + 1)

\* if 1 <= band_num <= 100
LteMaxBand == 100

LteInRange_from0(band_num) == 0 <= band_num /\ band_num <= LteMaxBand

LteInRange(band_num) == 1 <= band_num /\ band_num <= LteMaxBand

\* the integers the LTE regex captures on one line (before the range filter)
LteLineMatches(line) ==
    LET line_stripped == strip(line)
    IN  IF LteEligible(line_stripped)
        THEN Ints(potential_lte_parts(clean_line(line_stripped, 1), 1))
        ELSE <<>>

\* the integers captured over all lines, in order
RECURSIVE LteMatches(_)
LteMatches(lines) ==
    IF lines = <<>> THEN <<>>
    ELSE LteLineMatches(Head(lines)) \o LteMatches(Tail(lines))

\* lte_bands when the function returns
lte_bands(text) == {b \in SeqToSet(LteMatches(split(text))) : LteInRange(b)}

\* nr_bands when the function returns
nr_bands(text) == SeqToSet(individual_bands(nr_matches(text, 1)))

parse_phone_bands_crossdedup(text) ==
    <<sorted(lte_bands(text) \ nr_bands(text)), sorted(nr_bands(text))>>

parse_phone_bands(text) == <<sorted(lte_bands(text)), sorted(nr_bands(text))>>

(***************************************************************************)
(* parse_phone_bands of src/GUI expanded/band_check.py: the LTE half is    *)
(* the same code; the NR regex takes one digit run and an optional letter  *)
(***************************************************************************)
IsAsciiLetter(c) == c \in UpperSet \/ c \in LowerSet

\* the matches of n(\d), which takes one digit only
RECURSIVE nr_matches_gui_oneDigit(_, _)
nr_matches_gui_oneDigit(text, i) ==
    IF i > Len(text) THEN <<>>
    ELSE IF lower(text[i]) = "n" /\ i + 1 <= Len(text) /\ IsDigit(text[i + 1])
         THEN <<SubSeq(text, i + 1, i + 1)>> \o nr_matches_gui_oneDigit(text, i + 2)
         ELSE nr_matches_gui_oneDigit(text, i + 1)

\* re.findall(r'n(\d+)(?:[a-zA-Z])?', text, re.IGNORECASE) from position i
RECURSIVE nr_matches_gui(_, _)
nr_matches_gui(text, i) ==
    IF i > Len(text) THEN <<>>
    ELSE IF lower(text[i]) = "n" /\ i + 1 <= Len(text) /\ IsDigit(text[i + 1])
         THEN LET e   == DigitsEnd(text, i + 1)
                  end == IF e <= Len(text) /\ IsAsciiLetter(text[e]) THEN e + 1 ELSE e
              IN  <<SubSeq(text, i + 1, e - 1)>> \o nr_matches_gui(text, end)
         ELSE nr_matches_gui(text, i + 1)

nr_bands_gui(text) == SeqToSet(Ints(nr_matches_gui(text, 1)))

parse_phone_bands_gui(text) == <<sorted(lte_bands(text)), sorted(nr_bands_gui(text))>>

(***************************************************************************)
(* parse_phone_bands of src/Terminal version/band_check.py: extraction is  *)
(* gated by the section the most recent header line opened                 *)
(***************************************************************************)
\* 'word' in line
Contains(line, word) == \E i \in DOMAIN line : MatchAt(line, i, word)

\* the section after the header test of one line: "5G", "4G", or unchanged
SectionAfter(line, current_section) ==
    LET l == strip(line)
    IN  IF Contains(l, <<"5","g">>) /\ ~Contains(l, <<"4","g">>) THEN "5G"
        ELSE IF Contains(l, <<"4","g">>) /\ ~Contains(l, <<"5","g">>) THEN "4G"
        ELSE current_section

\* does the line take one of the two `continue` branches
IsHeader(line) ==
    LET l == strip(line)
    IN  Contains(l, <<"5","g">>) # Contains(l, <<"4","g">>)

\* re.findall(r'n(\d+)', line, re.IGNORECASE) from position i
RECURSIVE nr_matches_terminal(_, _)
nr_matches_terminal(line, i) ==
    IF i > Len(line) THEN <<>>
    ELSE IF lower(line[i]) = "n" /\ i + 1 <= Len(line) /\ IsDigit(line[i + 1])
         THEN LET e == DigitsEnd(line, i + 1)
              IN  <<SubSeq(line, i + 1, e - 1)>> \o nr_matches_terminal(line, e)
         ELSE nr_matches_terminal(line, i + 1)

\* re.findall(r'[Bb](\d+)(?:\s*\([^)]*\))?', line, re.IGNORECASE) from position i
RECURSIVE lte_matches_terminal(_, _)
lte_matches_terminal(line, i) ==
    IF i > Len(line) THEN <<>>
    ELSE IF lower(line[i]) = "b" /\ i + 1 <= Len(line) /\ IsDigit(line[i + 1])
         THEN LET e   == DigitsEnd(line, i + 1)
                  p   == SpaceEnd(line, e)
                  c   == IF p <= Len(line) /\ line[p] = "("
                         THEN CloseParen(line, p + 1) ELSE 0
                  end == IF c > 0 THEN c + 1 ELSE e
              IN  <<SubSeq(line, i + 1, e - 1)>> \o lte_matches_terminal(line, end)
         ELSE lte_matches_terminal(line, i + 1)

\* the loop without the two `continue`: a header line is searched as well,
\* under the section it opens
RECURSIVE TerminalLoop_noContinue(_, _, _, _)
TerminalLoop_noContinue(lines, k, current_section, acc) ==
    IF k > Len(lines) THEN acc
    ELSE LET section == SectionAfter(lines[k], current_section)
         IN  IF section = "5G"
             THEN TerminalLoop_noContinue(lines, k + 1, section,
                     [acc EXCEPT !.nr = @ \cup SeqToSet(Ints(nr_matches_terminal(lines[k], 1)))])
             ELSE IF section = "4G"
             THEN TerminalLoop_noContinue(lines, k + 1, section,
                     [acc EXCEPT !.lte = @ \cup SeqToSet(Ints(lte_matches_terminal(lines[k], 1)))])
             ELSE TerminalLoop_noContinue(lines, k + 1, section, acc)

\* the loop over lines: [lte |-> lte_bands, nr |-> nr_bands] after the lines
\* from index k on, entered with current_section and the sets so far
RECURSIVE TerminalLoop(_, _, _, _)
TerminalLoop(lines, k, current_section, acc) ==
    IF k > Len(lines) THEN acc
    ELSE IF IsHeader(lines[k])
         THEN TerminalLoop(lines, k + 1, SectionAfter(lines[k], current_section), acc)
    ELSE IF current_section = "5G"
         THEN TerminalLoop(lines, k + 1, current_section,
                 [acc EXCEPT !.nr = @ \cup SeqToSet(Ints(nr_matches_terminal(lines[k], 1)))])
    ELSE IF current_section = "4G"
         THEN TerminalLoop(lines, k + 1, current_section,
                 [acc EXCEPT !.lte = @ \cup SeqToSet(Ints(lte_matches_terminal(lines[k], 1)))])
    ELSE TerminalLoop(lines, k + 1, current_section, acc)

parse_phone_bands_terminal(text) ==
    LET r == TerminalLoop(split(text), 1, "None", [lte |-> {}, nr |-> {}])
    IN  <<sorted(r.lte), sorted(r.nr)>>

(***************************************************************************)
(* compare_phone_to_carrier and calculate_compatibility_score of           *)
(* src/band_check_perplexity.py.  A dict is the sequence of its            *)
(* <<key, value>> items in insertion order; bands_info is a function of    *)
(* its three string keys.                                                  *)
(***************************************************************************)
BandsInfo(lte, core, nr) ==
    ("4G/LTE" :> lte) @@ ("Core LTE" :> core) @@ ("5G" :> nr)

\* the table with band 13 entered as a core band of AT&T
get_us_carriers_coreOutside ==
    << <<"Verizon",  BandsInfo({2, 4, 5, 13, 41, 46, 48, 66, 71},
                               {2, 4, 13, 66},
                               {2, 5, 66, 77, 260, 261})>>,
       <<"AT&T",     BandsInfo({2, 4, 5, 12, 14, 17, 29, 30, 66, 71},
                               {2, 4, 12, 13, 17, 29},
                               {2, 5, 66, 77, 260})>>,
       <<"T-Mobile", BandsInfo({2, 4, 5, 12, 25, 41, 66, 71},
                               {2, 4, 12, 71},
                               {2, 25, 38, 41, 71, 258, 260, 261})>> >>

\* BandCheckerApp.get_us_carriers()
get_us_carriers ==
    << <<"Verizon",  BandsInfo({2, 4, 5, 13, 41, 46, 48, 66, 71},
                               {2, 4, 13, 66},
                               {2, 5, 66, 77, 260, 261})>>,
       <<"AT&T",     BandsInfo({2, 4, 5, 12, 14, 17, 29, 30, 66, 71},
                               {2, 4, 12, 17, 29},
                               {2, 5, 66, 77, 260})>>,
       <<"T-Mobile", BandsInfo({2, 4, 5, 12, 25, 41, 66, 71},
                               {2, 4, 12, 71},
                               {2, 25, 38, 41, 71, 258, 260, 261})>> >>

\* self.us_carriers of src/GUI expanded/band_check.py
us_carriers_gui ==
    << <<"Verizon",  BandsInfo({2, 4, 5, 13, 41, 46, 48, 66, 71},
                               {2, 4, 13, 66},
                               {2, 5, 66, 77, 260, 261})>>,
       <<"AT&T",     BandsInfo({2, 4, 5, 12, 14, 17, 29, 30, 66, 71},
                               {2, 4, 12, 17, 29},
                               {2, 5, 66, 77, 260})>>,
       <<"T-Mobile", BandsInfo({2, 4, 5, 12, 25, 41, 66, 71},
                               {2, 4, 12, 71},
                               {2, 25, 38, 41, 71, 258, 260, 261})>> >>

\* us_carriers of main() of src/Terminal version/band_check.py
us_carriers_terminal ==
    << <<"Verizon",  BandsInfo({2, 4, 5, 13, 41, 46, 48, 66, 71},
                               {2, 4, 13, 66},
                               {2, 5, 66, 77, 260, 261})>>,
       <<"AT&T",     BandsInfo({2, 4, 5, 12, 14, 17, 29, 30, 66, 71},
                               {2, 4, 12, 17, 29},
                               {2, 5, 66, 77, 260})>>,
       <<"T-Mobile", BandsInfo({2, 4, 5, 12, 25, 41, 66, 71},
                               {2, 4, 12, 71},
                               {2, 25, 38, 41, 71, 258, 260, 261})>> >>

\* phone_bands.intersection(carrier_bands)
supported_all(phone_bands, carrier_bands) == phone_bands

supported(phone_bands, carrier_bands) == phone_bands \cap carrier_bands

\* carrier_bands - phone_bands
missing_swapped(phone_bands, carrier_bands) == phone_bands \ carrier_bands

missing(phone_bands, carrier_bands) == carrier_bands \ phone_bands

\* carrier_core_lte.intersection(missing_lte)
missing_core_unfiltered(carrier_core_lte, missing_lte) == carrier_core_lte

missing_core(carrier_core_lte, missing_lte) == carrier_core_lte \cap missing_lte

\* the body of the loop of compare_phone_to_carrier: the report of one carrier
CarrierReport_nrFromLte(phone_lte_bands, phone_nr_bands, bands_info) ==
    LET carrier_lte == bands_info["4G/LTE"]
        carrier_nr  == bands_info["5G"]
        carrier_core_lte == bands_info["Core LTE"]
        missing_lte == missing(phone_lte_bands, carrier_lte)
    IN  [supported_lte    |-> sorted(supported(phone_lte_bands, carrier_lte)),
         supported_nr     |-> sorted(supported(phone_lte_bands, carrier_nr)),
         missing_lte      |-> sorted(missing_lte),
         missing_nr       |-> sorted(missing(phone_lte_bands, carrier_nr)),
         missing_core_lte |-> sorted(missing_core(carrier_core_lte, missing_lte))]

CarrierReport(phone_lte_bands, phone_nr_bands, bands_info) ==
    LET carrier_lte == bands_info["4G/LTE"]
        carrier_nr  == bands_info["5G"]
        carrier_core_lte == bands_info["Core LTE"]
        missing_lte == missing(phone_lte_bands, carrier_lte)
    IN  [supported_lte    |-> sorted(supported(phone_lte_bands, carrier_lte)),
         supported_nr     |-> sorted(supported(phone_nr_bands, carrier_nr)),
         missing_lte      |-> sorted(missing_lte),
         missing_nr       |-> sorted(missing(phone_nr_bands, carrier_nr)),
         missing_core_lte |-> sorted(missing_core(carrier_core_lte, missing_lte))]

\* compare_phone_to_carrier: results, one item per item of carrier_data
compare_phone_to_carrier_lastOnly(phone_lte_bands, phone_nr_bands, carrier_data) ==
    IF carrier_data = <<>> THEN <<>>
    ELSE LET item == carrier_data[Len(carrier_data)]
         IN  << <<item[1], CarrierReport(phone_lte_bands, phone_nr_bands, item[2])>> >>

compare_phone_to_carrier(phone_lte_bands, phone_nr_bands, carrier_data) ==
    [i \in DOMAIN carrier_data |->
        <<carrier_data[i][1],
          CarrierReport(phone_lte_bands, phone_nr_bands, carrier_data[i][2])>>]

\* results[carrier]; the carrier is a key of results
ReportOf(results, carrier) ==
    results[CHOOSE i \in DOMAIN results : results[i][1] = carrier][2]

\* carrier in results
HasKey(results, carrier) == \E i \in DOMAIN results : results[i][1] = carrier

\* the weights of calculate_compatibility_score (2.0, 1.0 and 2.0: every score
\* is a whole number, kept here as an integer)
SupportedLteWeight == 2

SupportedNrWeight == 1

MissingCorePenalty == 2

\* max(0, score)
max(a, b) == IF b > a THEN b ELSE a

calculate_compatibility_score_penaltyAdded(carrier_results) ==
    max(0, Len(carrier_results.supported_lte) * SupportedLteWeight
           + Len(carrier_results.supported_nr) * SupportedNrWeight
           + Len(carrier_results.missing_core_lte) * MissingCorePenalty)

calculate_compatibility_score_unfloored(carrier_results) ==
    Len(carrier_results.supported_lte) * SupportedLteWeight
    + Len(carrier_results.supported_nr) * SupportedNrWeight
    - Len(carrier_results.missing_core_lte) * MissingCorePenalty

calculate_compatibility_score_penalty4(carrier_results) ==
    max(0, Len(carrier_results.supported_lte) * SupportedLteWeight
           + Len(carrier_results.supported_nr) * SupportedNrWeight
           - Len(carrier_results.missing_core_lte) * (MissingCorePenalty + MissingCorePenalty))

calculate_compatibility_score(carrier_results) ==
    max(0, Len(carrier_results.supported_lte) * SupportedLteWeight
           + Len(carrier_results.supported_nr) * SupportedNrWeight
           - Len(carrier_results.missing_core_lte) * MissingCorePenalty)

(***************************************************************************)
(* The program: a band text is entered, then one of the three variants'    *)
(* parse_phone_bands is called on it                                       *)
(***************************************************************************)
VARIABLES
    input_text,   \* the text handed to parse_phone_bands
    typed,        \* number of fragments appended to input_text
    pc,           \* "edit": text being entered; "done": parse_phone_bands returned
    variant,      \* which source file's parse_phone_bands ran
    lte_list,     \* first component of the returned pair
    nr_list,      \* second component of the returned pair
    carrier_data, \* the carrier mapping handed to compare_phone_to_carrier
    results,      \* the mapping compare_phone_to_carrier returned
    scores,       \* calculate_compatibility_score of each item of results
    model_input,        \* text of the model_input line edit
    comparison_history, \* self.comparison_history
    log_tree,           \* top-level items of the history tree
    output_text,        \* what the output pane shows
    clock,              \* number of datetime.now() readings so far
    history_file,       \* what is stored at HISTORY_FILE
    raised              \* the exception that left a handler, or "none"

\* the state of the comparison and scoring that follow a parse
evalVars == <<carrier_data, results, scores>>

\* the history file and the exception state
fileVars == <<history_file, raised>>

\* the state of the application window
appVars == <<model_input, comparison_history, log_tree, output_text, clock,
             fileVars>>

vars == <<input_text, typed, pc, variant, lte_list, nr_list, evalVars, appVars>>

\* number of fragments appended to a text
MaxTyped == 2

\* "5G n77, 4G B2, B4"
ScenarioA == <<"5","G"," ","n","7","7",","," ","4","G"," ","B","2",","," ","B","4">>

\* "n1/2/3 5G, B41 LTE"
ScenarioB == <<"n","1","/","2","/","3"," ","5","G",","," ","B","4","1"," ","L","T","E">>

\* "B28A (700)"
ScenarioC == <<"B","2","8","A"," ","(","7","0","0",")">>

\* "B2 ((5) 7)"
NestedAnnotation == <<"B","2"," ","(","(","5",")"," ","7",")">>

\* "n41 B41"
SharedBand == <<"n","4","1"," ","B","4","1">>

\* "4G\nB4 B2 B4\n5G\nn5 n3 n5"
RepeatedBands == <<"4","G","\n","B","4"," ","B","2"," ","B","4","\n","5","G","\n","n","5"," ","n","3"," ","n","5">>

PastedTexts == {ScenarioA, ScenarioB, ScenarioC, NestedAnnotation, SharedBand,
                RepeatedBands}

\* the fragments a text is extended by
Fragments == { <<"n">>, <<"N">>, <<"B">>, <<"b">>, <<"a">>,
               <<"0">>, <<"2">>, <<"1","0">>,
               <<" ">>, <<"\f">>, <<"é">>,
               <<"/">>, <<",">>, <<"\n">>, <<"(">>, <<")">>,
               <<"L","T","E">>, <<"4","g">>, <<"5","G">> }

Init ==
    /\ input_text = <<>>
    /\ typed = 0
    /\ pc = "edit"
    /\ variant = "none"
    /\ lte_list = <<>>
    /\ nr_list = <<>>
    /\ carrier_data = <<>>
    /\ results = <<>>
    /\ scores = <<>>
    /\ model_input = <<>>
    /\ comparison_history = <<>>
    /\ log_tree = <<>>
    /\ output_text = [kind |-> "empty"]
    /\ clock = 0
    /\ history_file = [kind |-> "missing"]
    /\ raised = "none"

\* a whole text is pasted into the empty input
Paste(t) ==
    /\ pc = "edit"
    /\ input_text = <<>>
    /\ typed = 0
    /\ input_text' = t
    /\ UNCHANGED <<typed, pc, variant, lte_list, nr_list, evalVars, appVars>>

\* a fragment is appended to the input
Type(f) ==
    /\ pc = "edit"
    /\ typed < MaxTyped
    /\ input_text' = input_text \o f
    /\ typed' = typed + 1
    /\ UNCHANGED <<pc, variant, lte_list, nr_list, evalVars, appVars>>

\* parse_phone_bands(text) of src/band_check_perplexity.py
CallPerplexity ==
    /\ pc = "edit"
    /\ pc' = "done"
    /\ variant' = "perplexity"
    /\ LET returned == parse_phone_bands(input_text)
       IN  lte_list' = returned[1] /\ nr_list' = returned[2]
    /\ UNCHANGED <<input_text, typed, evalVars, appVars>>

\* parse_phone_bands(text) of src/GUI expanded/band_check.py
CallGui ==
    /\ pc = "edit"
    /\ pc' = "done"
    /\ variant' = "gui"
    /\ LET returned == parse_phone_bands_gui(input_text)
       IN  lte_list' = returned[1] /\ nr_list' = returned[2]
    /\ UNCHANGED <<input_text, typed, evalVars, appVars>>

\* parse_phone_bands(text) of src/Terminal version/band_check.py
CallTerminal ==
    /\ pc = "edit"
    /\ pc' = "done"
    /\ variant' = "terminal"
    /\ LET returned == parse_phone_bands_terminal(input_text)
       IN  lte_list' = returned[1] /\ nr_list' = returned[2]
    /\ UNCHANGED <<input_text, typed, evalVars, appVars>>

Next ==
    \/ \E t \in PastedTexts : Paste(t)
    \/ \E f \in Fragments : Type(f)
    \/ CallPerplexity
    \/ CallGui
    \/ CallTerminal

Spec == Init /\ [][Next]_vars

(***************************************************************************)
(* The three parsers on short texts of one token: a prefix and a number,   *)
(* and a band followed by an annotation and a digit                        *)
(***************************************************************************)
\* the ways a band is introduced: "B", "b", "Band ", "band ", "LTE ",
\* "lte ", "n", "N"
BandPrefixes ==
    { <<"B">>, <<"b">>, <<"B","a","n","d"," ">>, <<"b","a","n","d"," ">>,
      <<"L","T","E"," ">>, <<"l","t","e"," ">>, <<"n">>, <<"N">> }

\* the numbers "1", "2", "66", "41"
BandNumbers == { <<"1">>, <<"2">>, <<"6","6">>, <<"4","1">> }

\* "B4 (1900)1"
AnnotationThenDigit == <<"B","4"," ","(","1","9","0","0",")","1">>

\* "B4(1)"
AnnotationAtEnd == <<"B","4","(","1",")">>

FormatTexts ==
    {p \o d : p \in BandPrefixes, d \in BandNumbers}
       \cup {AnnotationThenDigit, AnnotationAtEnd}

NextFormats ==
    \/ \E t \in FormatTexts : Paste(t)
    \/ CallPerplexity
    \/ CallGui
    \/ CallTerminal

SpecFormats == Init /\ [][NextFormats]_vars

(***************************************************************************)
(* Comparison and scoring: the band lists of a parse, or band lists given  *)
(* by a caller, are compared with a carrier mapping and the reports scored *)
(***************************************************************************)
\* largest number of LTE bands and of NR bands a caller gives
MaxPhoneLte == 4

MaxPhoneNr == 2

\* the bands a caller's lists are made of
LtePool == {2, 4, 7, 12, 13, 66, 71}

NrPool == {2, 5, 41, 77}

\* the built-in table with its items inserted in the opposite order
ReversedCarriers ==
    [i \in DOMAIN get_us_carriers |->
        get_us_carriers[Len(get_us_carriers) + 1 - i]]

\* a mapping of two other profiles, one of them without bands
SyntheticCarriers ==
    << <<"Regional", BandsInfo({7, 12, 66}, {7, 12}, {41})>>,
       <<"Bare", BandsInfo({}, {}, {})>> >>

\* the carrier mappings compare_phone_to_carrier is called with
CarrierTables ==
    {get_us_carriers, us_carriers_gui, us_carriers_terminal, ReversedCarriers,
     SyntheticCarriers, <<>>}

\* a caller has the band lists at hand (sorted lists, as parse_phone_bands
\* returns them)
GiveBands(lte, nr) ==
    /\ pc = "edit"
    /\ input_text = <<>>
    /\ pc' = "done"
    /\ variant' = "caller"
    /\ lte_list' = sorted(lte)
    /\ nr_list' = sorted(nr)
    /\ UNCHANGED <<input_text, typed, evalVars, appVars>>

\* compare_phone_to_carrier(set(lte_list), set(nr_list), carrier_data)
Compare(cd) ==
    /\ pc = "done"
    /\ pc' = "compared"
    /\ carrier_data' = cd
    /\ results' = compare_phone_to_carrier(SeqToSet(lte_list), SeqToSet(nr_list), cd)
    /\ UNCHANGED <<input_text, typed, variant, lte_list, nr_list, scores, appVars>>

\* calculate_compatibility_score(data) for each item of results
Score ==
    /\ pc = "compared"
    /\ pc' = "scored"
    /\ scores' = [i \in DOMAIN results |-> calculate_compatibility_score(results[i][2])]
    /\ UNCHANGED <<input_text, typed, variant, lte_list, nr_list, carrier_data, results,
                 appVars>>

NextCompare ==
    \/ \E t \in PastedTexts : Paste(t)
    \/ CallPerplexity
    \/ \E lte \in {S \in SUBSET LtePool : Cardinality(S) <= MaxPhoneLte} :
       \E nr \in {S \in SUBSET NrPool : Cardinality(S) <= MaxPhoneNr} :
           GiveBands(lte, nr)
    \/ \E cd \in CarrierTables : Compare(cd)
    \/ Score

SpecCompare == Init /\ [][NextCompare]_vars

(***************************************************************************)
(* The application window: analyze_bands logs a device in the history and  *)
(* shows its carrier ranking, show_best_device ranks the logged devices    *)
(* for one carrier.  The window starts without a history file.             *)
(***************************************************************************)
\* the letters of U+0080..U+00FF with an upper case in the same range
Latin1LowerLetters ==
    <<"à", "á", "â", "ã", "ä", "å", "æ", "ç", "è", "é", "ê", "ë", "ì",
     "í", "î", "ï", "ð", "ñ", "ò", "ó", "ô", "õ", "ö", "ø", "ù", "ú",
     "û", "ü", "ý", "þ">>

Latin1UpperLetters ==
    <<"À", "Á", "Â", "Ã", "Ä", "Å", "Æ", "Ç", "È", "É", "Ê", "Ë", "Ì",
     "Í", "Î", "Ï", "Ð", "Ñ", "Ò", "Ó", "Ô", "Õ", "Ö", "Ø", "Ù", "Ú",
     "Û", "Ü", "Ý", "Þ">>

UpperOf ==
    [c \in LowerSet |->
        UpperLetters[CHOOSE i \in DOMAIN LowerLetters : LowerLetters[i] = c]]

\* str.upper() of one character up to U+00FF: a text, as the upper case of
\* U+00DF is "SS"; the upper case of U+00B5 is U+039C and that of U+00FF is
\* U+0178, written by its code point
UpperText(c) ==
    IF c \in LowerSet THEN <<UpperOf[c]>>
    ELSE IF \E i \in DOMAIN Latin1LowerLetters : Latin1LowerLetters[i] = c
    THEN <<Latin1UpperLetters[CHOOSE i \in DOMAIN Latin1LowerLetters :
                                 Latin1LowerLetters[i] = c]>>
    ELSE IF c = "µ" THEN <<"Μ">>
    ELSE IF c = "ß" THEN <<"S", "S">>
    ELSE IF c = "ÿ" THEN <<"U+0178">>
    ELSE <<c>>

\* str.upper()
RECURSIVE upper(_)
upper(text) ==
    IF text = <<>> THEN <<>> ELSE UpperText(Head(text)) \o upper(Tail(text))

\* "Unknown Model"
UnknownModel == <<"U","n","k","n","o","w","n"," ","M","o","d","e","l">>

\* list.sort(key=score, reverse=True) is stable: an item is placed behind
\* every item whose score is not smaller; the mutant places it in front of
\* the items with the same score
InsertByScore_beforeTies(ranked, item) ==
    LET p == Cardinality({i \in DOMAIN ranked : ranked[i][2] > item[2]})
    IN  SubSeq(ranked, 1, p) \o <<item>> \o SubSeq(ranked, p + 1, Len(ranked))

InsertByScore(ranked, item) ==
    LET p == Cardinality({i \in DOMAIN ranked : ranked[i][2] >= item[2]})
    IN  SubSeq(ranked, 1, p) \o <<item>> \o SubSeq(ranked, p + 1, Len(ranked))

\* items.sort(key=lambda x: x[1], reverse=True); the score is the second
\* component of an item
RECURSIVE sort_by_score_reverse(_)
sort_by_score_reverse(items) ==
    IF items = <<>> THEN <<>>
    ELSE InsertByScore(sort_by_score_reverse(SubSeq(items, 1, Len(items) - 1)),
                       items[Len(items)])

\* the ranking of format_report_for_display: (carrier, score, data) of each
\* item of comparison_results, sorted
carrier_scores(comparison_results) ==
    sort_by_score_reverse(
        [i \in DOMAIN comparison_results |->
            <<comparison_results[i][1],
              calculate_compatibility_score(comparison_results[i][2]),
              comparison_results[i][2]>>])

\* what format_report_for_display puts into the output pane: the header
\* with the model in capitals, the detected lists and the ranking
format_report_for_display(comparison_results, lte_bands_list, nr_bands_list, phone_model) ==
    [kind |-> "report",
     phone_model |-> upper(phone_model),
     phone_lte |-> lte_bands_list,
     phone_5g |-> nr_bands_list,
     ranking |-> carrier_scores(comparison_results)]

\* the loop of find_best_device_for_carrier from entry i on; best_device is
\* <<>> for None and <<entry>> for an entry
RECURSIVE FindBestLoop(_, _, _, _, _)
FindBestLoop(history, carrier, i, best_score, best_device) ==
    IF i > Len(history) THEN best_device
    ELSE LET entry == history[i]
         IN  IF HasKey(entry.results, carrier)
             THEN LET score == calculate_compatibility_score(
                                   ReportOf(entry.results, carrier))
                  IN  IF score > best_score
                      THEN FindBestLoop(history, carrier, i + 1, score, <<entry>>)
                      ELSE FindBestLoop(history, carrier, i + 1, best_score,
                                        best_device)
             ELSE FindBestLoop(history, carrier, i + 1, best_score, best_device)

\* find_best_device_for_carrier with best_score starting at 0
find_best_device_for_carrier_fromZero(history, carrier) ==
    FindBestLoop(history, carrier, 1, 0, <<>>)

find_best_device_for_carrier(history, carrier) ==
    FindBestLoop(history, carrier, 1, -1, <<>>)

\* the entries of the history that have a report for the carrier
RECURSIVE WithCarrier(_, _)
WithCarrier(history, carrier) ==
    IF history = <<>> THEN <<>>
    ELSE (IF HasKey(history[1].results, carrier) THEN <<history[1]>> ELSE <<>>)
         \o WithCarrier(Tail(history), carrier)

\* all_scores of show_best_device: (model, entry_score) of each entry that
\* has a report for the carrier, sorted
all_scores(history, selected_carrier) ==
    LET entries == WithCarrier(history, selected_carrier)
    IN  sort_by_score_reverse(
            [i \in DOMAIN entries |->
                <<entries[i].model,
                  calculate_compatibility_score(
                      ReportOf(entries[i].results, selected_carrier))>>])

\* number of devices show_best_device lists
TopCount == 5

\* all_scores[:5]
Top(items) == SubSeq(items, 1, IF Len(items) < TopCount THEN Len(items) ELSE TopCount)

\* largest number of entries analyze_bands logs: the analysis of a device
\* that would be logged as one more is left out
MaxHistory == 3

\* "LTE B2 B4 B13 B66"
DeviceA == <<"L","T","E"," ","B","2"," ","B","4"," ","B","1","3"," ","B","6","6">>

\* "LTE B2 B4 B5 B66 B71\nn2"
DeviceB == <<"L","T","E"," ","B","2"," ","B","4"," ","B","5"," ","B","6","6",
             " ","B","7","1","\n","n","2">>

\* "LTE B2 B4 B5 B13"
DeviceT == <<"L","T","E"," ","B","2"," ","B","4"," ","B","5"," ","B","1","3">>

\* "GSM"
NoBandText == <<"G","S","M">>

\* " \f": a space and a form feed
BlankText == <<" ","\f">>

\* the texts put into the input pane
DeviceTexts == {DeviceA, DeviceB, DeviceT, NoBandText, BlankText}

\* the texts put into the model line: "" and " é1"
ModelInputs == {<<>>, <<" ","é","1">>}

\* the items of the carrier selector
CarrierChoices ==
    {"Select Carrier"} \cup {get_us_carriers[i][1] : i \in DOMAIN get_us_carriers}

\* the user replaces the text of the input pane
EnterText(t) ==
    /\ pc = "edit"
    /\ typed = 0
    /\ t # input_text
    /\ input_text' = t
    /\ UNCHANGED <<typed, pc, variant, lte_list, nr_list, evalVars, appVars>>

\* the user replaces the text of the model line
EnterModel(m) ==
    /\ pc = "edit"
    /\ m # model_input
    /\ model_input' = m
    /\ UNCHANGED <<input_text, typed, pc, variant, lte_list, nr_list, evalVars,
                   comparison_history, log_tree, output_text, clock, fileVars>>

\* the duplicate test of analyze_bands, looking at the last entry only
is_duplicate_lastOnly(history, phone_model, phone_lte, phone_5g) ==
    /\ history # <<>>
    /\ history[Len(history)].model = phone_model
    /\ history[Len(history)].phone_lte = phone_lte
    /\ history[Len(history)].phone_5g = phone_5g

\* the duplicate test of analyze_bands: an entry of the history has the
\* model and the two band lists
is_duplicate(history, phone_model, phone_lte, phone_5g) ==
    \E i \in DOMAIN history :
        /\ history[i].model = phone_model
        /\ history[i].phone_lte = phone_lte
        /\ history[i].phone_5g = phone_5g

\* the "Analyze Bands" button
analyze_bands ==
    /\ pc = "edit"
    /\ LET phone_info_text == strip(input_text)
           phone_model == IF strip(model_input) = <<>> THEN UnknownModel
                          ELSE strip(model_input)
           parsed == parse_phone_bands(phone_info_text)
           phone_lte_bands_list == parsed[1]
           phone_nr_bands_list == parsed[2]
           comparison_results ==
               compare_phone_to_carrier(SeqToSet(phone_lte_bands_list),
                                        SeqToSet(phone_nr_bands_list),
                                        get_us_carriers)
           log_entry_data ==
               [model |-> phone_model,
                timestamp |-> clock + 1,
                phone_lte |-> phone_lte_bands_list,
                phone_5g |-> phone_nr_bands_list,
                results |-> comparison_results]
           report == format_report_for_display(comparison_results,
                         phone_lte_bands_list, phone_nr_bands_list, phone_model)
       IN  IF phone_info_text = <<>>
           THEN \* QMessageBox.warning "Input Error"
                UNCHANGED <<comparison_history, log_tree, output_text, clock>>
           ELSE IF is_duplicate(comparison_history, phone_model,
                                phone_lte_bands_list, phone_nr_bands_list)
           THEN \* QMessageBox.information "Duplicate Entry"
                /\ output_text' = report
                /\ UNCHANGED <<comparison_history, log_tree, clock>>
           ELSE IF phone_lte_bands_list = <<>> /\ phone_nr_bands_list = <<>>
           THEN /\ output_text' = [kind |-> "no bands",
                                   phone_lte |-> phone_lte_bands_list,
                                   phone_5g |-> phone_nr_bands_list]
                /\ UNCHANGED <<comparison_history, log_tree, clock>>
           ELSE /\ clock < MaxHistory
                /\ clock' = clock + 1
                /\ comparison_history' = Append(comparison_history, log_entry_data)
                /\ log_tree' = Append(log_tree,
                                      [model_name |-> log_entry_data.model,
                                       comparison_data |-> log_entry_data])
                /\ output_text' = report
    /\ UNCHANGED <<input_text, typed, pc, variant, lte_list, nr_list, evalVars,
                   model_input, fileVars>>

\* the "Find Best Device" button, with the item the carrier selector shows
show_best_device(selected_carrier) ==
    /\ pc = "edit"
    /\ LET best_device ==
               find_best_device_for_carrier(comparison_history, selected_carrier)
       IN  IF selected_carrier = "Select Carrier" \/ comparison_history = <<>>
           THEN \* QMessageBox.information "Information"
                UNCHANGED output_text
           ELSE IF best_device # <<>>
           THEN output_text' =
                     [kind |-> "best",
                      carrier |-> selected_carrier,
                      best_device |-> best_device[1],
                      score |-> calculate_compatibility_score(
                                    ReportOf(best_device[1].results, selected_carrier)),
                      carrier_results |-> ReportOf(best_device[1].results,
                                                   selected_carrier),
                      top |-> Top(all_scores(comparison_history, selected_carrier))]
           ELSE \* QMessageBox.information "No Data"
                UNCHANGED output_text
    /\ UNCHANGED <<input_text, typed, pc, variant, lte_list, nr_list, evalVars,
                   model_input, comparison_history, log_tree, clock, fileVars>>

\* a click on a top-level item of the history tree (itemClicked): the report
\* of its entry replaces the output
display_log_entry(item) ==
    /\ pc = "edit"
    /\ item \in DOMAIN log_tree
    /\ LET data_to_display == log_tree[item].comparison_data
       IN  output_text' = format_report_for_display(data_to_display.results,
                                                    data_to_display.phone_lte,
                                                    data_to_display.phone_5g,
                                                    data_to_display.model)
    /\ UNCHANGED <<input_text, typed, pc, variant, lte_list, nr_list, evalVars,
                   model_input, comparison_history, log_tree, clock, fileVars>>

(***************************************************************************)
(* The history: delete_selected_entries, save_history, load_history        *)
(***************************************************************************)

\* the timestamp format of save_history and load_history
HistoryFormat == "%Y-%m-%d %H:%M:%S"

\* the readings of datetime.now() that fall into one second: a timestamp is
\* a reading counted in these parts of a second
TicksPerSecond == 2

\* timestamp.strftime(HistoryFormat): the text of a clock reading, which
\* holds its whole seconds
strftime(timestamp) ==
    [format |-> HistoryFormat, seconds |-> timestamp \div TicksPerSecond]

\* datetime.strptime(text, HistoryFormat): the start of the second of the text
strptime(text) == text.seconds * TicksPerSecond

\* entry_data.copy() with the timestamp as text
serializable_entry(entry_data) ==
    [entry_data EXCEPT !.timestamp = strftime(@)]

\* what the write of save_history can come to
DiskOutcomes == {"written", "not opened", "cut"}

\* the content of HISTORY_FILE after save_history: the list of the entries;
\* on an IOError of makedirs or open the file is as before, on an IOError
\* during json.dump it holds the start of a JSON text (QMessageBox.critical
\* "Save History Error" in both cases)
save_history(history, disk) ==
    CASE disk = "written" ->
             [kind |-> "list",
              items |-> [i \in DOMAIN history |-> serializable_entry(history[i])]]
      [] disk = "not opened" -> history_file
      [] disk = "cut" -> [kind |-> "not json"]

\* list.remove(x): the list without its first item equal to x
RECURSIVE remove(_, _)
remove(list, x) ==
    IF list = <<>> THEN <<>>
    ELSE IF Head(list) = x THEN Tail(list)
    ELSE <<Head(list)>> \o remove(Tail(list), x)

\* the history loop of delete_selected_entries, stopping after the first item
RemoveEach_firstOnly(history, data) ==
    IF data = <<>> THEN history
    ELSE IF \E i \in DOMAIN history : history[i] = Head(data)
         THEN remove(history, Head(data))
         ELSE history

\* the history loop of delete_selected_entries: each selected item's
\* comparison_data is removed from the history if it is in it
RECURSIVE RemoveEach(_, _)
RemoveEach(history, data) ==
    IF data = <<>> THEN history
    ELSE IF \E i \in DOMAIN history : history[i] = Head(data)
         THEN RemoveEach(remove(history, Head(data)), Tail(data))
         ELSE RemoveEach(history, Tail(data))

\* the tree loop of delete_selected_entries: takeTopLevelItem of each
\* selected item; the items are the positions of the tree before the call
RECURSIVE TakeItems(_, _, _)
TakeItems(tree, items, k) ==
    IF k > Len(tree) THEN <<>>
    ELSE (IF k \in items THEN <<>> ELSE <<tree[k]>>) \o TakeItems(tree, items, k + 1)

\* the lists of selected items tried for a tree of n items: every set of
\* positions, listed from the top down
Selections(n) ==
    {[k \in 1..Cardinality(S) |->
         CHOOSE x \in S : Cardinality({y \in S : y < x}) = k - 1] :
     S \in SUBSET (1..n)}

\* the "Delete Selected" button, with the selected items, the answer to the
\* "Confirm Delete" question and the outcome of the write
delete_selected_entries(selected_items, reply, disk) ==
    /\ pc = "edit"
    /\ IF selected_items = <<>> \/ reply # "Yes"
       THEN UNCHANGED <<comparison_history, log_tree, history_file>>
       ELSE /\ log_tree' =
                   TakeItems(log_tree,
                             {selected_items[i] : i \in DOMAIN selected_items}, 1)
            /\ comparison_history' =
                   RemoveEach(comparison_history,
                              [i \in DOMAIN selected_items |->
                                  log_tree[selected_items[i]].comparison_data])
            /\ history_file' = save_history(comparison_history', disk)
    /\ UNCHANGED <<input_text, typed, pc, variant, lte_list, nr_list, evalVars,
                   model_input, output_text, clock, raised>>

\* the outcomes of the write of a delete: nothing is written unless items are
\* selected and the reply is Yes
WriteOutcomes(selected_items, reply) ==
    IF selected_items = <<>> \/ reply # "Yes" THEN {"written"} ELSE DiskOutcomes

\* the window is closed: the history is saved and the program ends
closeEvent(disk) ==
    /\ pc = "edit"
    /\ history_file' = save_history(comparison_history, disk)
    /\ pc' = "closed"
    /\ UNCHANGED <<input_text, typed, variant, lte_list, nr_list, evalVars,
                   model_input, comparison_history, log_tree, output_text,
                   clock, raised>>

\* the handlers that log devices and show reports and rankings
NextApp ==
    \/ \E t \in DeviceTexts : EnterText(t)
    \/ \E m \in ModelInputs : EnterModel(m)
    \/ analyze_bands
    \/ \E selected_carrier \in CarrierChoices : show_best_device(selected_carrier)
    \/ \E item \in DOMAIN log_tree : display_log_entry(item)

SpecApp == Init /\ [][NextApp]_vars

\* the texts analysed while entries are deleted
HistoryTexts == {DeviceA, DeviceT}

\* the handlers that add entries to the history and remove them
NextHistory ==
    \/ \E t \in HistoryTexts : EnterText(t)
    \/ \E m \in ModelInputs : EnterModel(m)
    \/ analyze_bands
    \/ \E selected_items \in Selections(Len(log_tree)), reply \in {"Yes", "No"} :
           \E disk \in WriteOutcomes(selected_items, reply) :
               delete_selected_entries(selected_items, reply, disk)

SpecHistory == Init /\ [][NextHistory]_vars

\* the loop of load_history from item i on: the history, the tree and the
\* exception that ends the loop ("none" when the loop ends by itself).
\* entry_data['timestamp'] raises KeyError without the key, strptime raises
\* ValueError on a text in another format; the entry is appended to the
\* history before add_log_entry_to_tree reads log_data['model']
RECURSIVE LoadLoop(_, _, _, _)
LoadLoop(loaded_history, i, history, tree) ==
    IF i > Len(loaded_history)
    THEN [history |-> history, tree |-> tree, raised |-> "none"]
    ELSE LET entry_data == loaded_history[i]
         IN  IF "timestamp" \notin DOMAIN entry_data
             THEN [history |-> history, tree |-> tree, raised |-> "KeyError"]
             ELSE IF entry_data.timestamp.format # HistoryFormat
             THEN [history |-> history, tree |-> tree, raised |-> "ValueError"]
             ELSE LET parsed == [entry_data EXCEPT !.timestamp = strptime(@)]
                  IN  IF "model" \notin DOMAIN parsed
                      THEN [history |-> Append(history, parsed), tree |-> tree,
                            raised |-> "KeyError"]
                      ELSE LoadLoop(loaded_history, i + 1,
                                    Append(history, parsed),
                                    Append(tree, [model_name |-> parsed.model,
                                                  comparison_data |-> parsed]))

\* load_history, the last call of __init__: an exception other than IOError
\* and json.JSONDecodeError leaves the constructor
load_history ==
    /\ pc = "starting"
    /\ LET outcome ==
               CASE history_file.kind = "missing" ->
                        \* os.path.exists(HISTORY_FILE) is false
                        [history |-> comparison_history, tree |-> log_tree,
                         raised |-> "none"]
                 [] history_file.kind \in {"unreadable", "not json"} ->
                        \* IOError of open, JSONDecodeError of json.load: printed
                        [history |-> comparison_history, tree |-> log_tree,
                         raised |-> "none"]
                 [] history_file.kind = "not text" ->
                        \* f.read() of bytes that are not text
                        [history |-> comparison_history, tree |-> log_tree,
                         raised |-> "UnicodeDecodeError"]
                 [] history_file.kind = "number" ->
                        \* for entry_data in a number
                        [history |-> comparison_history, tree |-> log_tree,
                         raised |-> "TypeError"]
                 [] history_file.kind = "list" ->
                        LoadLoop(history_file.items, 1, comparison_history,
                                 log_tree)
       IN  /\ comparison_history' = outcome.history
           /\ log_tree' = outcome.tree
           /\ raised' = outcome.raised
           /\ pc' = IF outcome.raised = "none" THEN "edit" ELSE "crashed"
    /\ UNCHANGED <<input_text, typed, variant, lte_list, nr_list, evalVars,
                   model_input, output_text, clock, history_file>>

\* the entry analyze_bands logs for a model and a text at a clock reading
LoggedEntry(phone_model, text, timestamp) ==
    [model |-> phone_model,
     timestamp |-> timestamp,
     phone_lte |-> parse_phone_bands(text)[1],
     phone_5g |-> parse_phone_bands(text)[2],
     results |-> compare_phone_to_carrier(SeqToSet(parse_phone_bands(text)[1]),
                                          SeqToSet(parse_phone_bands(text)[2]),
                                          get_us_carriers)]

\* an object without one of its keys
WithoutKey(object, key) == [k \in (DOMAIN object) \ {key} |-> object[k]]

\* two entries as save_history writes them
SavedA == serializable_entry(LoggedEntry(UnknownModel, DeviceA, 1))
SavedT == serializable_entry(LoggedEntry(<<"é","1">>, DeviceT, 2))

\* the objects a history file is made of: the two saved entries, one without
\* its timestamp, one with an ISO timestamp, one without its model
FileEntries ==
    {SavedA, SavedT,
     WithoutKey(SavedA, "timestamp"),
     [SavedT EXCEPT !.timestamp.format = "%Y-%m-%dT%H:%M:%S"],
     WithoutKey(SavedT, "model")}

\* largest number of entries of a history file
MaxFileEntries == 2

\* the contents of HISTORY_FILE the program starts with
HistoryFiles ==
    {[kind |-> k] : k \in {"missing", "unreadable", "not json", "not text",
                           "number"}}
    \cup {[kind |-> "list", items |-> items] :
              items \in UNION {[1..n -> FileEntries] : n \in 0..MaxFileEntries}}

\* __init__ before its last call, load_history, with any history file
InitLoad ==
    /\ input_text = <<>>
    /\ typed = 0
    /\ pc = "starting"
    /\ variant = "none"
    /\ lte_list = <<>>
    /\ nr_list = <<>>
    /\ carrier_data = <<>>
    /\ results = <<>>
    /\ scores = <<>>
    /\ model_input = <<>>
    /\ comparison_history = <<>>
    /\ log_tree = <<>>
    /\ output_text = [kind |-> "empty"]
    /\ clock = 0
    /\ history_file \in HistoryFiles
    /\ raised = "none"

NextLoad ==
    \/ load_history
    \/ \E t \in HistoryTexts : EnterText(t)
    \/ \E m \in ModelInputs : EnterModel(m)
    \/ analyze_bands
    \/ \E item \in DOMAIN log_tree : display_log_entry(item)
    \/ \E disk \in DiskOutcomes : closeEvent(disk)

SpecLoad == InitLoad /\ [][NextLoad]_vars

(***************************************************************************)
(* Claims                                                                  *)
(***************************************************************************)
Returned(v) == pc = "done" /\ variant = v

ListSet(q) == {q[i] : i \in DOMAIN q}

\* C1: the perplexity variant, called on "n1/2/3 5G, B41 LTE", returns the NR
\* list [1,2,3]: the 5 of the following "5G" is not an NR band.
C1_ScenarioB_Nr ==
    (Returned("perplexity") /\ input_text = ScenarioB) => nr_list = <<1, 2, 3>>

\* C2: the perplexity variant, called on "n1/2/3 5G, B41 LTE", returns the LTE
\* list [41]: the 2 and 3 of the NR shorthand are not LTE bands.
C2_ScenarioB_Lte ==
    (Returned("perplexity") /\ input_text = ScenarioB) => lte_list = <<41>>

\* C3: the perplexity and GUI-expanded variants, called on "5G n77, 4G B2, B4",
\* return LTE [2,4] and NR [77].
C3_ScenarioA ==
    (pc = "done" /\ variant \in {"perplexity", "gui"} /\ input_text = ScenarioA)
        => (lte_list = <<2, 4>> /\ nr_list = <<77>>)

C3_Witness ==
    Returned("perplexity") /\ input_text = ScenarioA /\ lte_list = <<2, 4>>

\* C4: the perplexity and GUI-expanded variants, called on "B28A (700)", return
\* LTE [28] and an empty NR list.
C4_ScenarioC ==
    (pc = "done" /\ variant \in {"perplexity", "gui"} /\ input_text = ScenarioC)
        => (lte_list = <<28>> /\ nr_list = <<>>)

C4_Witness ==
    Returned("gui") /\ input_text = ScenarioC /\ lte_list = <<28>>

\* C5: every element of the LTE list returned by the perplexity and GUI-expanded
\* variants lies in 1..100, for every input text.
C5_LteRange ==
    (pc = "done" /\ variant \in {"perplexity", "gui"})
        => \A i \in DOMAIN lte_list : lte_list[i] \in 1..100

\* a matched LTE token above 100 was dropped while another band was returned
C5_Witness ==
    /\ Returned("perplexity")
    /\ lte_list # <<>>
    /\ \E b \in SeqToSet(LteMatches(split(input_text))) :
          b > 100 /\ b \notin ListSet(lte_list)

\* C6: every band number the perplexity variant returns, LTE or NR, is a
\* positive integer; 'n' followed by "0" does not put 0 into the NR list.
C6_PositiveBands ==
    Returned("perplexity")
        => /\ \A i \in DOMAIN lte_list : lte_list[i] >= 1
           /\ \A i \in DOMAIN nr_list : nr_list[i] >= 1

\* the keyword occurs in the line as a whole word, case-insensitively
KeywordAsWord(line, word) ==
    \E i \in DOMAIN line :
        /\ MatchAt(line, i, word)
        /\ (i = 1 \/ ~IsWordChar(line[i - 1]))
        /\ (i + Len(word) > Len(line) \/ ~IsWordChar(line[i + Len(word)]))

\* the line holds the letter B or b followed by a digit
BThenDigit(line) ==
    \E i \in DOMAIN line :
        line[i] \in {"B", "b"} /\ i + 1 <= Len(line) /\ IsDigit(line[i + 1])

NoEligibleLine(text) ==
    \A k \in DOMAIN split(text) :
        LET line == split(text)[k]
        IN  /\ ~BThenDigit(line)
            /\ \A word \in {<<"4","G">>, <<"L","T","E">>,
                            <<"T","D","-","L","T","E">>, <<"F","D","D">>} :
                   ~KeywordAsWord(line, word)

\* C7: in the perplexity variant, a text in which no line holds a whole-word
\* keyword 4G, LTE, TD-LTE or FDD and no line holds B/b followed by a digit
\* yields an empty LTE list, whatever bare numbers it contains.
C7_IneligibleLines ==
    (Returned("perplexity") /\ NoEligibleLine(input_text)) => lte_list = <<>>

\* a bare number in 1..100 stands in a text without an eligible line
C7_Witness ==
    /\ Returned("perplexity")
    /\ NoEligibleLine(input_text)
    /\ \E b \in SeqToSet(Ints(potential_lte_parts(input_text, 1))) : b \in 1..100
    /\ lte_list = <<>>

\* the position of the ")" that closes the "(" at position a, or 0 if none does:
\* scan from i with `depth` parentheses open
RECURSIVE MatchingClose(_, _, _)
MatchingClose(line, i, depth) ==
    IF i > Len(line) THEN 0
    ELSE IF line[i] = "(" THEN MatchingClose(line, i + 1, depth + 1)
    ELSE IF line[i] = ")"
         THEN IF depth = 1 THEN i ELSE MatchingClose(line, i + 1, depth - 1)
    ELSE MatchingClose(line, i + 1, depth)

\* position i lies between a "(" and its matching ")"
InsideAnnotation(line, i) ==
    \E a \in 1..(i - 1) : line[a] = "(" /\ MatchingClose(line, a + 1, 1) > i

\* the starts of the maximal digit runs of the line whose value is k
RunsOf(line, k) ==
    {i \in DOMAIN line :
        /\ IsDigit(line[i])
        /\ (i = 1 \/ ~IsDigit(line[i - 1]))
        /\ int(SubSeq(line, i, DigitsEnd(line, i) - 1)) = k}

\* k stands on an LTE-eligible line, and wherever it stands it is annotated
OnlyAnnotated(text, k) ==
    LET ls == split(text)
    IN  /\ \E j \in DOMAIN ls : RunsOf(ls[j], k) # {} /\ LteEligible(strip(ls[j]))
        /\ \A j \in DOMAIN ls : \A i \in RunsOf(ls[j], k) : InsideAnnotation(ls[j], i)

\* C8: in the perplexity variant, a number in 1..100 that appears on an
\* LTE-eligible line only inside a parenthesized annotation, nested or not, is
\* never returned as an LTE band.
C8_AnnotatedNumbers ==
    Returned("perplexity")
        => \A i \in DOMAIN lte_list : ~OnlyAnnotated(input_text, lte_list[i])

\* the text names k as an NR band: 'n' followed by the digit run of k
NamedAsNr(text, k) ==
    \E i \in DOMAIN text :
        /\ text[i] \in {"n", "N"}
        /\ i + 1 <= Len(text)
        /\ IsDigit(text[i + 1])
        /\ int(SubSeq(text, i + 1, DigitsEnd(text, i + 1) - 1)) = k

\* the text names k as an LTE band: the word 'B' + digit run of k, standing on
\* a line without annotations
NamedAsLte(text, k) ==
    \E j \in DOMAIN split(text) :
        LET line == split(text)[j]
        IN  /\ \A i \in DOMAIN line : line[i] # "("
            /\ \E i \in DOMAIN line :
                  LET e == DigitsEnd(line, i + 1)
                  IN  /\ line[i] \in {"B", "b"}
                      /\ (i = 1 \/ ~IsWordChar(line[i - 1]))
                      /\ e > i + 1
                      /\ (e > Len(line) \/ ~IsWordChar(line[e]))
                      /\ int(SubSeq(line, i + 1, e - 1)) = k

\* C9: the perplexity variant performs no cross-deduplication: what one list
\* holds does not depend on the other.  Every LTE token in 1..100 matched on
\* an eligible line is returned whether or not it is an NR band, every NR
\* match is returned whether or not it is an LTE band, and a text that names
\* band k (1..100) both as 'n'+k and as the word 'B'+k returns k in both lists.
C9_NoCrossDedup ==
    Returned("perplexity")
        => /\ \A b \in SeqToSet(LteMatches(split(input_text))) :
                  b \in 1..100 => b \in ListSet(lte_list)
           /\ \A b \in SeqToSet(individual_bands(nr_matches(input_text, 1))) :
                  b \in ListSet(nr_list)
           /\ \A k \in SeqToSet(Ints(DigitRuns(input_text, 1))) :
                  (k \in 1..100 /\ NamedAsNr(input_text, k) /\ NamedAsLte(input_text, k))
                      => (k \in ListSet(lte_list) /\ k \in ListSet(nr_list))

C9_Witness ==
    /\ Returned("perplexity")
    /\ \E k \in 1..100 :
          /\ NamedAsNr(input_text, k)
          /\ NamedAsLte(input_text, k)
          /\ k \in ListSet(lte_list)
          /\ k \in ListSet(nr_list)

StrictlyAscending(q) == \A i, j \in DOMAIN q : i < j => q[i] < q[j]

\* C10: both lists returned by parse_phone_bands, in all three variants, are
\* strictly ascending: sorted, with no value twice.
C10_StrictlyAscending ==
    pc = "done" => (StrictlyAscending(lte_list) /\ StrictlyAscending(nr_list))

\* a band is matched twice, and after a larger one, for both technologies
C10_Witness ==
    LET m == LteMatches(split(input_text))
        n == individual_bands(nr_matches(input_text, 1))
    IN  /\ Returned("perplexity")
        /\ \E i, j \in DOMAIN m : i < j /\ m[i] > m[j]
        /\ \E i, j \in DOMAIN m : i < j /\ m[i] = m[j]
        /\ \E i, j \in DOMAIN n : i < j /\ n[i] > n[j]
        /\ \E i, j \in DOMAIN n : i < j /\ n[i] = n[j]
        /\ Len(lte_list) >= 2
        /\ Len(nr_list) >= 2

(***************************************************************************)
(* Claims about compare_phone_to_carrier                                   *)
(***************************************************************************)
Compared == pc \in {"compared", "scored"}

phone_lte_bands == SeqToSet(lte_list)

phone_nr_bands == SeqToSet(nr_list)

NoRepeat(q) == \A i, j \in DOMAIN q : q[i] = q[j] => i = j

\* C11: the empty input string parses to two empty lists, and two empty band
\* sets compared with any carrier profile give supported_lte = [], missing_lte
\* = the carrier's whole 4G/LTE set and missing_core_lte = the carrier's whole
\* Core LTE set.
C11_EmptyInput ==
    /\ (pc = "done" /\ variant = "perplexity" /\ input_text = <<>>)
          => (lte_list = <<>> /\ nr_list = <<>>)
    /\ (Compared /\ lte_list = <<>> /\ nr_list = <<>>)
          => \A i \in DOMAIN results :
                LET bands_info == carrier_data[i][2]
                    r == results[i][2]
                IN  /\ r.supported_lte = <<>>
                    /\ ListSet(r.missing_lte) = bands_info["4G/LTE"]
                    /\ NoRepeat(r.missing_lte)
                    /\ ListSet(r.missing_core_lte) = bands_info["Core LTE"]
                    /\ NoRepeat(r.missing_core_lte)

\* the empty text was parsed and its empty lists compared with the built-in
\* table
C11_Witness ==
    /\ Compared
    /\ variant = "perplexity"
    /\ input_text = <<>>
    /\ lte_list = <<>>
    /\ nr_list = <<>>
    /\ carrier_data = get_us_carriers
    /\ Len(results) = 3
    /\ Len(results[1][2].missing_core_lte) = 4

\* the band sets that differ from S in one band of the pool, the empty set
\* and the whole pool
OtherInputs(S, pool) ==
    {S \cup {b} : b \in pool} \cup {S \ {b} : b \in pool} \cup {{}, pool}

\* C12: every report has supported_lte = device LTE \cap carrier LTE,
\* missing_lte = carrier LTE minus device LTE, the same two for NR, and
\* missing_core_lte = carrier Core LTE \cap missing_lte, each an ascending
\* list; the LTE fields are the same whatever the NR input is and the NR
\* fields the same whatever the LTE input is.
C12_ReportFields ==
    Compared =>
      \A i \in DOMAIN results :
        LET bands_info == carrier_data[i][2]
            r == results[i][2]
        IN  /\ ListSet(r.supported_lte) = phone_lte_bands \cap bands_info["4G/LTE"]
            /\ ListSet(r.missing_lte) = bands_info["4G/LTE"] \ phone_lte_bands
            /\ ListSet(r.supported_nr) = phone_nr_bands \cap bands_info["5G"]
            /\ ListSet(r.missing_nr) = bands_info["5G"] \ phone_nr_bands
            /\ ListSet(r.missing_core_lte)
                  = bands_info["Core LTE"] \cap ListSet(r.missing_lte)
            /\ StrictlyAscending(r.supported_lte)
            /\ StrictlyAscending(r.missing_lte)
            /\ StrictlyAscending(r.supported_nr)
            /\ StrictlyAscending(r.missing_nr)
            /\ StrictlyAscending(r.missing_core_lte)
            /\ \A other_nr \in OtherInputs(phone_nr_bands, NrPool) :
                  LET o == CarrierReport(phone_lte_bands, other_nr, bands_info)
                  IN  /\ o.supported_lte = r.supported_lte
                      /\ o.missing_lte = r.missing_lte
                      /\ o.missing_core_lte = r.missing_core_lte
            /\ \A other_lte \in OtherInputs(phone_lte_bands, LtePool) :
                  LET o == CarrierReport(other_lte, phone_nr_bands, bands_info)
                  IN  /\ o.supported_nr = r.supported_nr
                      /\ o.missing_nr = r.missing_nr

\* a report whose five lists are all non-empty, for a device whose LTE and NR
\* sets differ
C12_Witness ==
    /\ Compared
    /\ phone_lte_bands # phone_nr_bands
    /\ \E i \in DOMAIN results :
          LET r == results[i][2]
          IN  /\ Len(r.supported_lte) >= 2
              /\ Len(r.missing_lte) >= 2
              /\ r.supported_nr # <<>>
              /\ r.missing_nr # <<>>
              /\ r.missing_core_lte # <<>>

\* C13: in every report supported_lte and missing_lte are disjoint and their
\* union is the carrier's 4G/LTE set, and supported_nr and missing_nr are
\* disjoint and their union is the carrier's 5G set.
C13_Partition ==
    Compared =>
      \A i \in DOMAIN results :
        LET bands_info == carrier_data[i][2]
            r == results[i][2]
        IN  /\ ListSet(r.supported_lte) \cap ListSet(r.missing_lte) = {}
            /\ ListSet(r.supported_lte) \cup ListSet(r.missing_lte)
                  = bands_info["4G/LTE"]
            /\ ListSet(r.supported_nr) \cap ListSet(r.missing_nr) = {}
            /\ ListSet(r.supported_nr) \cup ListSet(r.missing_nr)
                  = bands_info["5G"]

\* both partitions have two non-empty parts, and the device has an LTE band
\* and an NR band the carrier does not use
C13_Witness ==
    /\ Compared
    /\ \E i \in DOMAIN results :
          LET bands_info == carrier_data[i][2]
              r == results[i][2]
          IN  /\ r.supported_lte # <<>>
              /\ r.missing_lte # <<>>
              /\ r.supported_nr # <<>>
              /\ r.missing_nr # <<>>
              /\ phone_lte_bands \ bands_info["4G/LTE"] # {}
              /\ phone_nr_bands \ bands_info["5G"] # {}

\* C14: in every report missing_core_lte is a subset of missing_lte and of the
\* carrier's Core LTE set, and shares no band with supported_lte.
C14_MissingCore ==
    Compared =>
      \A i \in DOMAIN results :
        LET bands_info == carrier_data[i][2]
            r == results[i][2]
        IN  /\ ListSet(r.missing_core_lte) \subseteq ListSet(r.missing_lte)
            /\ ListSet(r.missing_core_lte) \subseteq bands_info["Core LTE"]
            /\ ListSet(r.missing_core_lte) \cap ListSet(r.supported_lte) = {}

\* some core bands are supported, some are missing, and a band that is not a
\* core band is missing as well
C14_Witness ==
    /\ Compared
    /\ \E i \in DOMAIN results :
          LET bands_info == carrier_data[i][2]
              r == results[i][2]
          IN  /\ r.missing_core_lte # <<>>
              /\ ListSet(r.supported_lte) \cap bands_info["Core LTE"] # {}
              /\ ListSet(r.missing_lte) \ bands_info["Core LTE"] # {}

Keys(items) == [i \in DOMAIN items |-> items[i][1]]

\* C15: the result of compare_phone_to_carrier has the keys of the carrier
\* mapping it was given, in that mapping's insertion order, one report per
\* carrier; an empty carrier mapping gives an empty result; the same inputs
\* give the same result in the same order.
C15_CarrierKeys ==
    Compared =>
      /\ Keys(results) = Keys(carrier_data)
      /\ NoRepeat(Keys(results))
      /\ (carrier_data = <<>> => results = <<>>)
      /\ results = compare_phone_to_carrier(phone_lte_bands, phone_nr_bands,
                                            carrier_data)

\* the built-in carriers were given in the opposite order and the reports
\* came back in that order
C15_Witness ==
    /\ Compared
    /\ carrier_data = ReversedCarriers
    /\ Keys(results) = <<"T-Mobile", "AT&T", "Verizon">>
    /\ results[1][2] # results[3][2]

C15_WitnessEmpty ==
    Compared /\ carrier_data = <<>> /\ results = <<>> /\ lte_list # <<>>

(***************************************************************************)
(* Claims about calculate_compatibility_score                              *)
(***************************************************************************)
Scored == pc = "scored"

\* largest number of bands by which a list of a report is grown
MaxGrowth == 3

\* the report with k more bands in one of its lists
Grow(r, field, k) ==
    LET more == [j \in 1..k |-> 0]
    IN  CASE field = "supported_lte" -> [r EXCEPT !.supported_lte = @ \o more]
          [] field = "supported_nr" -> [r EXCEPT !.supported_nr = @ \o more]
          [] field = "missing_core_lte" -> [r EXCEPT !.missing_core_lte = @ \o more]

\* C16: the score of every report is max(0, 2*|supported_lte| +
\* 1*|supported_nr| - 2*|missing_core_lte|) and so never negative; the device
\* with LTE bands {2,4,13,66} and no NR bands has, against the built-in
\* Verizon profile, no missing core band and the score 8.
C16_ScoreFormula ==
    Scored =>
      /\ DOMAIN scores = DOMAIN results
      /\ \A i \in DOMAIN results :
           LET r == results[i][2]
               raw == 2 * Len(r.supported_lte) + 1 * Len(r.supported_nr)
                      - 2 * Len(r.missing_core_lte)
           IN  /\ scores[i] = (IF raw < 0 THEN 0 ELSE raw)
               /\ scores[i] >= 0
               /\ (/\ lte_list = <<2, 4, 13, 66>>
                   /\ nr_list = <<>>
                   /\ carrier_data[i] = get_us_carriers[1])
                     => (r.missing_core_lte = <<>> /\ scores[i] = 8)

\* the device {2,4,13,66} without NR bands was scored against the built-in
\* table: Verizon 8, and AT&T, with three core bands missing, 0
C16_Witness ==
    /\ Scored
    /\ lte_list = <<2, 4, 13, 66>>
    /\ nr_list = <<>>
    /\ carrier_data = get_us_carriers
    /\ results[1][1] = "Verizon"
    /\ results[1][2].supported_nr = <<>>
    /\ scores[1] = 8
    /\ scores[2] = 0

\* a report whose weighted sum is negative was scored 0
C16_WitnessFloor ==
    /\ Scored
    /\ \E i \in DOMAIN results :
          LET r == results[i][2]
          IN  /\ 2 * Len(r.supported_lte) + Len(r.supported_nr)
                    < 2 * Len(r.missing_core_lte)
              /\ scores[i] = 0

\* C17: with the other two counts fixed, the score does not decrease when
\* supported_lte grows, does not decrease when supported_nr grows and does
\* not increase when missing_core_lte grows, also across the floor at 0.
C17_Monotone ==
    Scored =>
      \A i \in DOMAIN results : \A k \in 1..MaxGrowth :
        LET r == results[i][2]
        IN  /\ calculate_compatibility_score(Grow(r, "supported_lte", k)) >= scores[i]
            /\ calculate_compatibility_score(Grow(r, "supported_nr", k)) >= scores[i]
            /\ calculate_compatibility_score(Grow(r, "missing_core_lte", k)) <= scores[i]

\* one report is scored 0 and stays 0 with one more supported band, another
\* has a positive score that one more missing core band lowers and two
\* more take to the floor
C17_Witness ==
    /\ Scored
    /\ \E i \in DOMAIN results :
          /\ scores[i] = 0
          /\ calculate_compatibility_score(Grow(results[i][2], "supported_lte", 1)) = 0
          /\ calculate_compatibility_score(Grow(results[i][2], "supported_lte", 3)) > 0
    /\ \E i \in DOMAIN results :
          /\ scores[i] = 3
          /\ calculate_compatibility_score(Grow(results[i][2], "missing_core_lte", 1)) = 1
          /\ calculate_compatibility_score(Grow(results[i][2], "missing_core_lte", 2)) = 0

\* what one more band in a list of the report changes in the score
Gain(r, field) ==
    calculate_compatibility_score(Grow(r, field, 1)) - calculate_compatibility_score(r)

\* neither the score of r nor the score with one more missing core band is
\* at the floor
AwayFromFloor(r) ==
    /\ calculate_compatibility_score(r) > 0
    /\ calculate_compatibility_score(Grow(r, "missing_core_lte", 1)) > 0

\* C18 as stated: away from the floor, what one missing core band subtracts
\* is twice what one supported LTE band adds and twice what one supported NR
\* band adds.
C18_CoreTwiceAnyBand ==
    Scored =>
      \A i \in DOMAIN results :
        LET r == results[i][2]
        IN  AwayFromFloor(r) =>
              /\ - Gain(r, "missing_core_lte") = 2 * Gain(r, "supported_lte")
              /\ - Gain(r, "missing_core_lte") = 2 * Gain(r, "supported_nr")

\* C18 amended: away from the floor, one missing core band subtracts 2, which
\* is what one supported LTE band adds and twice what one supported NR band
\* adds.
C18_CoreTwiceNrOnly ==
    Scored =>
      \A i \in DOMAIN results :
        LET r == results[i][2]
        IN  /\ scores[i] = calculate_compatibility_score(r)
            /\ AwayFromFloor(r) =>
                 /\ - Gain(r, "missing_core_lte") = 2
                 /\ - Gain(r, "missing_core_lte") = Gain(r, "supported_lte")
                 /\ - Gain(r, "missing_core_lte") = 2 * Gain(r, "supported_nr")

\* a scored report away from the floor that has supported LTE bands,
\* supported NR bands and missing core bands
C18_Witness ==
    /\ Scored
    /\ \E i \in DOMAIN results :
          LET r == results[i][2]
          IN  /\ AwayFromFloor(r)
              /\ r.supported_lte # <<>>
              /\ r.supported_nr # <<>>
              /\ r.missing_core_lte # <<>>

(***************************************************************************)
(* Claims about the rankings of the application window                     *)
(***************************************************************************)
BuiltInCarriers == {get_us_carriers[i][1] : i \in DOMAIN get_us_carriers}

\* the score of history entry i for a carrier
EntryScore(i, carrier) ==
    calculate_compatibility_score(ReportOf(comparison_history[i].results, carrier))

\* entry i has no missing core band for the carrier, entry j has some
CoreCompleteAgainstCoreMissing(i, j, carrier) ==
    /\ ReportOf(comparison_history[i].results, carrier).missing_core_lte = <<>>
    /\ ReportOf(comparison_history[j].results, carrier).missing_core_lte # <<>>

\* entry j supports no more LTE bands and no more NR bands of the carrier
\* than entry i
NoMoreSupport(i, j, carrier) ==
    LET ri == ReportOf(comparison_history[i].results, carrier)
        rj == ReportOf(comparison_history[j].results, carrier)
    IN  /\ Len(rj.supported_lte) <= Len(ri.supported_lte)
        /\ Len(rj.supported_nr) <= Len(ri.supported_nr)

BestShown == output_text.kind = "best"

\* C19 as stated: for every built-in carrier, a logged device with no missing
\* core LTE band never has a lower score than a logged device with a missing
\* core LTE band, and find_best_device_for_carrier never returns a device with
\* a missing core band while a device without one is logged.
C19_CoreDominates ==
    /\ \A carrier \in BuiltInCarriers : \A i, j \in DOMAIN comparison_history :
          CoreCompleteAgainstCoreMissing(i, j, carrier)
             => EntryScore(i, carrier) >= EntryScore(j, carrier)
    /\ BestShown =>
          ~ /\ output_text.carrier_results.missing_core_lte # <<>>
            /\ \E i \in DOMAIN comparison_history :
                  ReportOf(comparison_history[i].results,
                           output_text.carrier).missing_core_lte = <<>>

\* C19 amended: a device with no missing core LTE band never has a lower
\* score than a device with a missing core band that supports no more LTE
\* bands and no more NR bands of the carrier; find_best_device_for_carrier
\* returns a logged device of the highest score, so it never prefers such a
\* device to the one without missing core bands.
C19_CoreDominatesAtEqualSupport ==
    /\ \A carrier \in BuiltInCarriers : \A i, j \in DOMAIN comparison_history :
          (CoreCompleteAgainstCoreMissing(i, j, carrier) /\ NoMoreSupport(i, j, carrier))
             => EntryScore(i, carrier) >= EntryScore(j, carrier)
    /\ BestShown =>
          /\ \E k \in DOMAIN comparison_history :
                /\ comparison_history[k] = output_text.best_device
                /\ output_text.score = EntryScore(k, output_text.carrier)
                /\ ~ \E i \in DOMAIN comparison_history :
                        /\ CoreCompleteAgainstCoreMissing(i, k, output_text.carrier)
                        /\ NoMoreSupport(i, k, output_text.carrier)
          /\ \A i \in DOMAIN comparison_history :
                EntryScore(i, output_text.carrier) <= output_text.score

\* the best device was looked up in a history that has a device without
\* missing core bands and a device with a missing core band and no more
\* support, and the first was returned
C19_Witness ==
    /\ BestShown
    /\ output_text.carrier_results.missing_core_lte = <<>>
    /\ \E i, j \in DOMAIN comparison_history :
          /\ comparison_history[i] = output_text.best_device
          /\ CoreCompleteAgainstCoreMissing(i, j, output_text.carrier)
          /\ NoMoreSupport(i, j, output_text.carrier)
          /\ EntryScore(j, output_text.carrier) > 0

\* a device with a missing core band was returned although a device without
\* one is logged
C19_WitnessPreferred ==
    /\ BestShown
    /\ output_text.carrier_results.missing_core_lte # <<>>
    /\ \E i \in DOMAIN comparison_history :
          ReportOf(comparison_history[i].results,
                   output_text.carrier).missing_core_lte = <<>>

\* the place of item i of a list of scores in the descending order that
\* keeps items of equal score in their order in the list
StableRank(score_list, i) ==
    Cardinality({j \in DOMAIN score_list : score_list[j] > score_list[i]})
    + Cardinality({j \in 1..i : score_list[j] = score_list[i]})

ReportShown == output_text.kind = "report"

\* C20: the ranking of format_report_for_display lists the carriers by
\* descending score, carriers of equal score in carrier-table order;
\* find_best_device_for_carrier returns the earliest history entry among those
\* of the highest score; the top-5 list of show_best_device orders devices of
\* equal score by history order.
C20_TiesKeepInputOrder ==
    /\ ReportShown =>
         LET table == get_us_carriers
             data(i) == CarrierReport(SeqToSet(output_text.phone_lte),
                                      SeqToSet(output_text.phone_5g), table[i][2])
             score_list == [i \in DOMAIN table |->
                               calculate_compatibility_score(data(i))]
         IN  /\ Len(output_text.ranking) = Len(table)
             /\ \A i \in DOMAIN table :
                   output_text.ranking[StableRank(score_list, i)]
                      = <<table[i][1], score_list[i], data(i)>>
    /\ BestShown =>
         LET carrier == output_text.carrier
             score_list == [i \in DOMAIN comparison_history |-> EntryScore(i, carrier)]
             n == Len(comparison_history)
         IN  /\ \E k \in DOMAIN comparison_history :
                   /\ output_text.best_device = comparison_history[k]
                   /\ \A i \in DOMAIN comparison_history :
                         score_list[i] <= score_list[k]
                   /\ \A i \in 1..(k - 1) : score_list[i] < score_list[k]
             /\ Len(output_text.top) = (IF n < 5 THEN n ELSE 5)
             /\ \A i \in DOMAIN comparison_history :
                   StableRank(score_list, i) <= 5
                      => output_text.top[StableRank(score_list, i)]
                            = <<comparison_history[i].model, score_list[i]>>

\* the best device was looked up in a history whose first entry has a lower
\* score than two later entries of different models that share the highest
\* score
C20_Witness ==
    /\ BestShown
    /\ Len(comparison_history) >= 3
    /\ \E i, j \in DOMAIN comparison_history :
          /\ 1 < i
          /\ i < j
          /\ comparison_history[i].model # comparison_history[j].model
          /\ EntryScore(i, output_text.carrier) = EntryScore(j, output_text.carrier)
          /\ EntryScore(1, output_text.carrier) < EntryScore(i, output_text.carrier)
          /\ output_text.score = EntryScore(i, output_text.carrier)
          /\ output_text.best_device = comparison_history[i]

\* a report whose ranking has two carriers of the same positive score and is
\* not in carrier-table order
C20_WitnessReport ==
    /\ ReportShown
    /\ \E p, q \in DOMAIN output_text.ranking :
          /\ p < q
          /\ output_text.ranking[p][2] = output_text.ranking[q][2]
          /\ output_text.ranking[p][2] > 0
    /\ Keys(output_text.ranking) # Keys(get_us_carriers)

(***************************************************************************)
(* Claims about the carrier table                                          *)
(***************************************************************************)
\* the table has a profile of this name with these three band sets
HasProfile(table, name, lte, core, nr) ==
    \E i \in DOMAIN table :
        /\ table[i][1] = name
        /\ table[i][2]["4G/LTE"] = lte
        /\ table[i][2]["Core LTE"] = core
        /\ table[i][2]["5G"] = nr

\* the table has the three profiles of the specification and no other
IsSpecTable(table) ==
    /\ Len(table) = 3
    /\ HasProfile(table, "Verizon", {2, 4, 5, 13, 41, 46, 48, 66, 71},
                  {2, 4, 13, 66}, {2, 5, 66, 77, 260, 261})
    /\ HasProfile(table, "AT&T", {2, 4, 5, 12, 14, 17, 29, 30, 66, 71},
                  {2, 4, 12, 17, 29}, {2, 5, 66, 77, 260})
    /\ HasProfile(table, "T-Mobile", {2, 4, 5, 12, 25, 41, 66, 71},
                  {2, 4, 12, 71}, {2, 25, 38, 41, 71, 258, 260, 261})

CoreWithinLte(table) ==
    \A i \in DOMAIN table : table[i][2]["Core LTE"] \subseteq table[i][2]["4G/LTE"]

\* C21: the built-in carrier table is the same in the three source files and
\* is the table of the specification, each carrier's Core LTE set is a subset
\* of its 4G/LTE set, and the mapping handed to compare_phone_to_carrier is
\* the same mapping after the comparison and after the scoring.
C21_CarrierTable ==
    /\ [](/\ IsSpecTable(get_us_carriers)
          /\ us_carriers_gui = get_us_carriers
          /\ us_carriers_terminal = get_us_carriers
          /\ CoreWithinLte(get_us_carriers)
          /\ (Compared /\ Keys(results) = Keys(get_us_carriers)
                 => (carrier_data = get_us_carriers /\ IsSpecTable(carrier_data))))
    /\ [][pc = "compared" => carrier_data' = carrier_data]_vars

\* the built-in table was compared with a device that has bands and the
\* reports were scored
C21_Witness ==
    /\ Scored
    /\ carrier_data = get_us_carriers
    /\ lte_list # <<>>
    /\ nr_list # <<>>
    /\ Len(scores) = 3

(***************************************************************************)
(* Claims about the input formats and about the three variants             *)
(***************************************************************************)
\* C22: given alone as the whole input, each format of the 'no bands' help
\* message is recognised by the parse_phone_bands of each file: "B1" gives
\* LTE band 1, "Band 2" LTE band 2, "LTE 66" LTE band 66, "n41" NR band 41.
C22_HelpFormats ==
    pc = "done" =>
      /\ input_text = <<"B","1">> => 1 \in ListSet(lte_list)
      /\ input_text = <<"B","a","n","d"," ","2">> => 2 \in ListSet(lte_list)
      /\ input_text = <<"L","T","E"," ","6","6">> => 66 \in ListSet(lte_list)
      /\ input_text = <<"n","4","1">> => 41 \in ListSet(nr_list)

\* C26: every LTE band the perplexity and the GUI-expanded parse_phone_bands
\* return is the value of a maximal digit run of the input text.
C26_NoInventedLteBand ==
    (pc = "done" /\ variant \in {"perplexity", "gui"}) =>
        \A k \in ListSet(lte_list) : RunsOf(input_text, k) # {}

\* C23: for every input text the GUI-expanded and the perplexity
\* parse_phone_bands return the same LTE list, and every NR band the
\* GUI-expanded one returns the perplexity one returns too.
C23_PerplexityLoosensGui ==
    (pc = "done" /\ variant = "gui") =>
        LET returned == parse_phone_bands(input_text)
        IN  /\ lte_list = returned[1]
            /\ ListSet(nr_list) \subseteq ListSet(returned[2])

\* both variants return LTE bands, and the perplexity variant returns NR
\* bands the GUI-expanded variant does not
C23_Witness ==
    /\ pc = "done"
    /\ variant = "gui"
    /\ lte_list # <<>>
    /\ nr_list # <<>>
    /\ ListSet(parse_phone_bands(input_text)[2]) \ ListSet(nr_list) # {}

\* C24: for every input text every LTE band and every NR band the Terminal
\* parse_phone_bands returns the GUI-expanded one returns too, so the LTE
\* bands of the Terminal variant lie in 1..100.
C24_TerminalStrictest ==
    (pc = "done" /\ variant = "terminal") =>
        LET returned == parse_phone_bands_gui(input_text)
        IN  /\ ListSet(lte_list) \subseteq ListSet(returned[1])
            /\ ListSet(nr_list) \subseteq ListSet(returned[2])
            /\ \A k \in ListSet(lte_list) : 1 <= k /\ k <= 100

\* the line has the two characters next to each other, in either case
HasPair(line, a, b) ==
    \E i \in 1..(Len(line) - 1) : lower(line[i]) = a /\ lower(line[i + 1]) = b

Is5gHeader(line) == HasPair(line, "5", "g") /\ ~HasPair(line, "4", "g")

Is4gHeader(line) == HasPair(line, "4", "g") /\ ~HasPair(line, "5", "g")

\* the section the most recent header line before line k opened
LastHeader(lines, k) ==
    LET hs == {j \in 1..(k - 1) : Is5gHeader(lines[j]) \/ Is4gHeader(lines[j])}
    IN  IF hs = {} THEN "None"
        ELSE LET j == CHOOSE h \in hs : \A g \in hs : g <= h
             IN  IF Is5gHeader(lines[j]) THEN "5G" ELSE "4G"

\* the line has the letter, in either case, followed by the digits of v
LetterThenNumber(line, letter, v) ==
    \E i \in 1..(Len(line) - 1) :
        /\ lower(line[i]) = letter
        /\ IsDigit(line[i + 1])
        /\ int(SubSeq(line, i + 1, DigitsEnd(line, i + 1) - 1)) = v

\* line k is no header line, the most recent header before it opened the
\* section, and the line has the letter followed by the digits of v
ExtractedFrom(lines, k, section, letter, v) ==
    /\ ~Is5gHeader(lines[k])
    /\ ~Is4gHeader(lines[k])
    /\ LastHeader(lines, k) = section
    /\ LetterThenNumber(lines[k], letter, v)

\* C25: in the Terminal parse_phone_bands a line with '5g' but not '4g', or
\* '4g' but not '5g', only switches the section; an NR band is returned only
\* from a non-header line whose most recent header was 5G, an LTE band only
\* from a non-header line whose most recent header was 4G, and lines before
\* the first header give nothing.
C25_SectionGate ==
    (pc = "done" /\ variant = "terminal") =>
        LET lines == split(input_text)
        IN  /\ \A v \in ListSet(nr_list) :
                  \E k \in DOMAIN lines : ExtractedFrom(lines, k, "5G", "n", v)
            /\ \A v \in ListSet(lte_list) :
                  \E k \in DOMAIN lines : ExtractedFrom(lines, k, "4G", "b", v)

\* LTE bands are returned from a text that has a header line with a band
\* token of its own, which is not returned
C25_Witness ==
    LET lines == split(input_text)
    IN  /\ pc = "done"
        /\ variant = "terminal"
        /\ lte_list # <<>>
        /\ \E k \in DOMAIN lines : \E v \in 1..100 :
              /\ Is5gHeader(lines[k]) \/ Is4gHeader(lines[k])
              /\ LetterThenNumber(lines[k], "n", v) \/ LetterThenNumber(lines[k], "b", v)
              /\ v \notin ListSet(lte_list)
              /\ v \notin ListSet(nr_list)

\* a header line with a band token of its own, and nothing returned
C25_WitnessHeaderOnly ==
    /\ pc = "done"
    /\ variant = "terminal"
    /\ lte_list = <<>>
    /\ nr_list = <<>>
    /\ Is5gHeader(input_text)
    /\ LetterThenNumber(input_text, "n", 1)

\* a results dict without the report of the carrier
DropReport(comparison_results, carrier) ==
    SelectSeq(comparison_results, LAMBDA pair : pair[1] # carrier)

\* the history with the carrier's report dropped from the entries at S
Stripped(history, S, carrier) ==
    [i \in DOMAIN history |->
        IF i \in S
        THEN [history[i] EXCEPT !.results = DropReport(@, carrier)]
        ELSE history[i]]

\* C28: every logged entry has at least one detected band, holds the results
\* compare_phone_to_carrier gives for its own band lists, and has a report for
\* every built-in carrier (an entry is logged with them and stays as it is);
\* so with a non-empty history a best device is found for every real carrier,
\* and the lookup of find_best_device_for_carrier for the selected carrier
\* gives None exactly when no entry has a report for the carrier.
C28_LoggedEntries ==
    /\ [](/\ \A i \in DOMAIN comparison_history :
                LET entry == comparison_history[i]
                IN  /\ entry.phone_lte # <<>> \/ entry.phone_5g # <<>>
                    /\ \A c \in BuiltInCarriers : HasKey(entry.results, c)
          /\ \A c \in BuiltInCarriers :
                comparison_history # <<>>
                   => find_best_device_for_carrier(comparison_history, c) # <<>>
          /\ output_text.kind = "best"
                => /\ output_text.carrier \in BuiltInCarriers
                   /\ output_text.best_device
                          \in {comparison_history[i] :
                                  i \in DOMAIN comparison_history}
                   /\ \A S \in SUBSET DOMAIN comparison_history :
                         (find_best_device_for_carrier(
                              Stripped(comparison_history, S,
                                       output_text.carrier),
                              output_text.carrier) = <<>>)
                            <=> S = DOMAIN comparison_history)
    /\ [][/\ Len(comparison_history') >= Len(comparison_history)
           /\ \A i \in DOMAIN comparison_history' :
                 IF i <= Len(comparison_history)
                 THEN comparison_history'[i] = comparison_history[i]
                 ELSE LET entry == comparison_history'[i]
                      IN  entry.results =
                             compare_phone_to_carrier(SeqToSet(entry.phone_lte),
                                                      SeqToSet(entry.phone_5g),
                                                      get_us_carriers)]_vars

\* a device whose score for the selected carrier is 0 is reported as the best
C28_Witness ==
    /\ output_text.kind = "best"
    /\ output_text.score = 0
    /\ Len(comparison_history) >= 2

\* the (model, phone_lte, phone_5g) of an entry
Combination(entry) == <<entry.model, entry.phone_lte, entry.phone_5g>>

\* the (model, phone_lte, phone_5g) that the two input fields stand for
CurrentCombination ==
    LET parsed == parse_phone_bands(strip(input_text))
    IN  <<IF strip(model_input) = <<>> THEN UnknownModel ELSE strip(model_input),
          parsed[1], parsed[2]>>

\* the fields stand for a combination that an entry of the history has
AlreadyLogged ==
    LET current == CurrentCombination
    IN  \E i \in DOMAIN comparison_history :
            Combination(comparison_history[i]) = current

\* C27: from an empty history, whatever is analysed and deleted, no two
\* entries of comparison_history have the same (model, phone_lte, phone_5g);
\* analyze_bands on a combination that is logged shows its report and leaves
\* the history and the tree as they are.
C27_NoDuplicateEntries ==
    /\ [](\A i, j \in DOMAIN comparison_history :
              i # j => Combination(comparison_history[i])
                           # Combination(comparison_history[j]))
    /\ [][(/\ Len(comparison_history') >= Len(comparison_history)
           /\ input_text' = input_text
           /\ model_input' = model_input
           /\ history_file' = history_file
           /\ vars' # vars
           /\ AlreadyLogged
           /\ analyze_bands)
              => /\ comparison_history' = comparison_history
                 /\ log_tree' = log_tree
                 /\ output_text'.kind = "report"
                 /\ output_text'.phone_model = upper(CurrentCombination[1])
                 /\ output_text'.phone_lte = CurrentCombination[2]
                 /\ output_text'.phone_5g = CurrentCombination[3]]_vars

\* two entries were logged and the second deleted; the combination of the
\* first was analysed again after the second: its report is shown and the
\* history has the first entry only
C27_Witness ==
    /\ clock = 2
    /\ Len(comparison_history) = 1
    /\ comparison_history[1].timestamp = 1
    /\ AlreadyLogged
    /\ output_text.kind = "report"
    /\ output_text.phone_model = upper(comparison_history[1].model)
    /\ output_text.phone_lte = comparison_history[1].phone_lte
    /\ output_text.phone_5g = comparison_history[1].phone_5g

\* the tree shows the entries of the history, in the order of the history
TreeMatches ==
    /\ Len(log_tree) = Len(comparison_history)
    /\ \A i \in DOMAIN log_tree :
           /\ log_tree[i].comparison_data = comparison_history[i]
           /\ "model" \in DOMAIN comparison_history[i]
                  => log_tree[i].model_name = comparison_history[i].model

\* the sequence without the items at the positions S, the others in order
Without(seq, S) ==
    LET keep == (DOMAIN seq) \ S
        rank(i) == Cardinality({j \in keep : j <= i})
    IN  [k \in 1..Cardinality(keep) |-> seq[CHOOSE i \in keep : rank(i) = k]]

\* C29: from an empty history, whatever is analysed and deleted, the items of
\* the tree and the entries of comparison_history are the same entries in the
\* same order; a confirmed delete removes the selected positions from both and
\* keeps the rest in order, a declined or empty delete changes neither.
C29_TreeMirrorsHistory ==
    /\ []TreeMatches
    /\ [][(/\ input_text' = input_text
            /\ model_input' = model_input
            /\ clock' = clock
            /\ output_text' = output_text
            /\ vars' # vars)
              => \A selected_items \in Selections(Len(log_tree)),
                    reply \in {"Yes", "No"} :
                     (\E disk \in WriteOutcomes(selected_items, reply) :
                          delete_selected_entries(selected_items, reply, disk))
                       => LET S == {selected_items[i] :
                                       i \in DOMAIN selected_items}
                          IN  IF reply = "Yes" /\ selected_items # <<>>
                              THEN /\ comparison_history'
                                          = Without(comparison_history, S)
                                   /\ log_tree' = Without(log_tree, S)
                              ELSE /\ comparison_history' = comparison_history
                                   /\ log_tree' = log_tree]_vars

\* the second of three entries has been deleted and the file rewritten
C29_Witness ==
    /\ Len(comparison_history) = 2
    /\ comparison_history[1].timestamp = 1
    /\ comparison_history[2].timestamp = 3
    /\ TreeMatches
    /\ history_file.kind = "list"
    /\ Len(history_file.items) = 2

\* the history holds every entry of a file that is a list
HoldsWholeFile ==
    /\ history_file.kind = "list"
    /\ Len(comparison_history) = Len(history_file.items)
    /\ \A i \in DOMAIN comparison_history :
           /\ "timestamp" \in DOMAIN history_file.items[i]
           /\ comparison_history[i]
                  = [history_file.items[i] EXCEPT
                         !.timestamp = @.seconds * TicksPerSecond]

\* C30: for a history file that is missing, unreadable, not JSON, or a JSON
\* list whose entries may lack a key or carry a timestamp in another format,
\* load_history raises nothing, and the history it leaves holds every entry
\* of the file or none, and the tree shows the entries of the history.
C30_LoadFailsSilently ==
    (/\ pc # "starting"
     /\ clock = 0
     /\ history_file.kind \in {"missing", "unreadable", "not json", "list"})
        => /\ raised = "none"
           /\ comparison_history = <<>> \/ HoldsWholeFile
           /\ TreeMatches

====
